---- MODULE Spec2Model ----
(***************************************************************************)
(* Scenario-derivation engines of the Business-Analytics-Portfolio:        *)
(*   - src/financial_model.py               (college mess P&L model)       *)
(*   - src/p-2/resource_utilization_model.py (campus facility utilisation) *)
(*                                                                         *)
(* Number representation.  The Python code computes on ints and binary     *)
(* floats.  Here every amount of money is an integer number of HUNDREDTHS  *)
(* of a currency unit (55000.0 is 5500000); with whole-unit inputs every   *)
(* product by wastage_pct/100, by 1 - eff/100 and by 0.95 is then exact.   *)
(* A quotient that the code leaves as a float (a percentage, a cost per    *)
(* person-hour) is an exact rational <<n, d>> in lowest terms with d > 0,  *)
(* and round(x, 2) yields a rational k/100.  The rounding error of binary  *)
(* floats is modelled where it changes a result: in int(max_capacity *     *)
(* 0.70) (see IntOfCapTimes) and in round(x, 2) of a quotient that lies    *)
(* exactly halfway between two hundredths (see Round2), for which the      *)
(* double the code has computed is derived operation by operation.         *)
(***************************************************************************)
EXTENDS Integers, Sequences, FiniteSets, TLC

VARIABLES
    prog,        \* which of the two independent programs runs: "mess" / "facility"
    pc,          \* position inside run_optimizations
    iter,        \* index of the current iteration of the running for-loop
    base,        \* financial_model.run_optimizations: argument `base`
    facilities,  \* resource_utilization_model.run_optimizations: argument `facilities`
    m,           \* financial_model.run_optimizations: local `m`, the last clone built
    variant,     \* facility run_optimizations: the last variant list built
                 \* (new_facilities / extended / trimmed / resized / combined)
    scenarios    \* the local list `scenarios` (the value returned at "done")

vars == <<prog, pc, iter, base, facilities, m, variant, scenarios>>

\* A local variable that has not been assigned yet.
Unassigned == [unassigned |-> TRUE]

(* Exact arithmetic helpers                                                *)

Abs(x) == IF x < 0 THEN -x ELSE x

RECURSIVE GCD(_, _)
GCD(a, b) == IF b = 0 THEN Abs(a) ELSE GCD(b, a % Abs(b))

\* The rational n/d (d # 0) in lowest terms with a positive denominator.
Rat(n, d) ==
    LET g == GCD(n, d)
        s == IF d < 0 THEN -1 ELSE 1
    IN  <<s * (n \div g), s * (d \div g)>>

RatZero == <<0, 1>>

\* Python's  x * 100  for a rational x.
RatTimes100(x) == Rat(x[1] * 100, x[2])

\* n/d rounded to the nearest integer, a tie going to the even neighbour
\* (d > 0; \div is the floor division, % is non-negative).
RoundHalfEven(n, d) ==
    LET q == n \div d
        r == n % d
    IN  IF 2 * r < d THEN q
        ELSE IF 2 * r > d THEN q + 1
        ELSE IF q % 2 = 0 THEN q ELSE q + 1

\* The multiple of 1/100 nearest to the rational x, a tie going to the
\* even hundredth.
RoundExact2(x) == Rat(RoundHalfEven(x[1] * 100, x[2]), 100)

\* x lies exactly halfway between two neighbouring multiples of 1/100:
\* 200 * x is an odd integer (x is in lowest terms).
IsHalfway(x) == x[2] \in {8, 40, 200}

\* a * b / 100 on integers, computed without forming a * b (exact whenever
\* a * b is a multiple of 100, which holds for whole-unit money inputs).
TimesPct(a, b) == (a \div 100) * b + ((a % 100) * b) \div 100

(***************************************************************************)
(* Binary floating point.  round(x, 2) rounds the DOUBLE the code has      *)
(* computed, so where the exact quotient lies halfway between two          *)
(* hundredths the result depends on the rounding error of the float        *)
(* operations before it.  The operators below compute IEEE-754 binary64    *)
(* arithmetic exactly: a double is <<s, M, e>>, the value s * M * 2^e,     *)
(* with the sign s in {1, -1}, the mantissa M a natural number below 2^53  *)
(* and odd (or zero), and every operation is the exact operation followed  *)
(* by rounding to 53 bits, ties to even.  A natural number of any size is  *)
(* the sequence of its digits in base 2^15, least significant first,       *)
(* without leading zeros (0 is <<>>).  Exponent overflow and subnormals    *)
(* are out of reach of the amounts handled here and are not modelled.      *)
(***************************************************************************)

LimbBase == 32768

\* 2^k for 0 <= k <= 15
Pow2(k) ==
    <<1, 2, 4, 8, 16, 32, 64, 128, 256, 512, 1024, 2048, 4096, 8192, 16384, 32768>>[k + 1]

\* a without its leading zeros
BTrim(a) ==
    IF \A i \in 1..Len(a) : a[i] = 0 THEN <<>>
    ELSE SubSeq(a, 1, CHOOSE i \in 1..Len(a) :
                          a[i] # 0 /\ \A j \in (i + 1)..Len(a) : a[j] = 0)

RECURSIVE BFromInt(_)
BFromInt(n) ==
    IF n = 0 THEN <<>> ELSE <<n % LimbBase>> \o BFromInt(n \div LimbBase)

RECURSIVE BToInt(_)
BToInt(a) == IF a = <<>> THEN 0 ELSE Head(a) + LimbBase * BToInt(Tail(a))

Limb(a, i) == IF i <= Len(a) THEN a[i] ELSE 0

RECURSIVE BAddFrom(_, _, _, _)
BAddFrom(a, b, i, carry) ==
    IF i > Len(a) /\ i > Len(b)
    THEN IF carry = 0 THEN <<>> ELSE <<carry>>
    ELSE LET s == Limb(a, i) + Limb(b, i) + carry
         IN  <<s % LimbBase>> \o BAddFrom(a, b, i + 1, s \div LimbBase)

BAdd(a, b) == BAddFrom(a, b, 1, 0)

RECURSIVE BSubFrom(_, _, _, _)
BSubFrom(a, b, i, borrow) ==
    IF i > Len(a) THEN <<>>
    ELSE LET s == Limb(a, i) - Limb(b, i) - borrow
         IN  <<s % LimbBase>> \o BSubFrom(a, b, i + 1, IF s < 0 THEN 1 ELSE 0)

\* a - b for a >= b
BSub(a, b) == BTrim(BSubFrom(a, b, 1, 0))

RECURSIVE BCmpFrom(_, _, _)
BCmpFrom(a, b, i) ==
    IF i = 0 THEN 0
    ELSE IF a[i] > b[i] THEN 1
    ELSE IF a[i] < b[i] THEN -1
    ELSE BCmpFrom(a, b, i - 1)

\* the sign of a - b
BCmp(a, b) ==
    IF Len(a) > Len(b) THEN 1
    ELSE IF Len(a) < Len(b) THEN -1
    ELSE BCmpFrom(a, b, Len(a))

RECURSIVE BMulSmallFrom(_, _, _, _)
BMulSmallFrom(a, k, i, carry) ==
    IF i > Len(a)
    THEN IF carry = 0 THEN <<>> ELSE <<carry>>
    ELSE LET p == a[i] * k + carry
         IN  <<p % LimbBase>> \o BMulSmallFrom(a, k, i + 1, p \div LimbBase)

\* a * k for 0 <= k < LimbBase
BMulSmall(a, k) == IF k = 0 THEN <<>> ELSE BMulSmallFrom(a, k, 1, 0)

\* acc * LimbBase^i + a * (the digits i, ..., 1 of b)
RECURSIVE BMulFrom(_, _, _, _)
BMulFrom(a, b, i, acc) ==
    IF i = 0 THEN acc
    ELSE IF acc = <<>> THEN BMulFrom(a, b, i - 1, BMulSmall(a, b[i]))
    ELSE BMulFrom(a, b, i - 1, BAdd(<<0>> \o acc, BMulSmall(a, b[i])))

BMul(a, b) == IF a = <<>> THEN <<>> ELSE BMulFrom(a, b, Len(b), <<>>)

RECURSIVE BDivSmallFrom(_, _, _, _)
BDivSmallFrom(a, k, i, rem) ==
    IF i = 0 THEN <<>>
    ELSE IF rem = 0 /\ a[i] < k THEN BDivSmallFrom(a, k, i - 1, a[i]) \o <<0>>
    ELSE BDivSmallFrom(a, k, i - 1, (rem * LimbBase + a[i]) % k)
             \o <<(rem * LimbBase + a[i]) \div k>>

\* a \div k for 0 < k < LimbBase
BDivSmall(a, k) == BTrim(BDivSmallFrom(a, k, Len(a), 0))

\* a * 2^k
BShl(a, k) ==
    IF a = <<>> THEN <<>>
    ELSE [i \in 1..(k \div 15) |-> 0] \o BMulSmall(a, Pow2(k % 15))

\* a \div 2^k
BShr(a, k) ==
    IF Len(a) <= k \div 15 THEN <<>>
    ELSE BDivSmall(SubSeq(a, k \div 15 + 1, Len(a)), Pow2(k % 15))

\* the number of binary digits of a digit n
IntBitLen(n) == CHOOSE k \in 0..15 : n < Pow2(k) /\ (k = 0 \/ n >= Pow2(k - 1))

\* the number of binary digits of a
BBitLen(a) ==
    IF a = <<>> THEN 0 ELSE 15 * (Len(a) - 1) + IntBitLen(a[Len(a)])

BIsEven(a) == a = <<>> \/ a[1] % 2 = 0

BDivModPair(qr) == <<BTrim(qr[1]), qr[2]>>

\* the largest h in 0..31 with (q + h * w) * d <= r
QuotPart(r, d, q, w) ==
    CHOOSE h \in 0..31 :
        /\ BCmp(BMulSmall(d, q + h * w), r) <= 0
        /\ h = 31 \/ BCmp(BMulSmall(d, q + (h + 1) * w), r) > 0

\* q raised by the largest multiple of w that keeps q * d <= r
QuotRaise(r, d, q, w) == q + w * QuotPart(r, d, q, w)

\* the digit r \div d (r < LimbBase * d), five bits at a time
QuotDigit(r, d) == QuotRaise(r, d, QuotRaise(r, d, QuotRaise(r, d, 0, 1024), 32), 1)

\* one step of the long division below: the digit qd of the quotient is
\* put in front of q and qd * d is taken from r
RECURSIVE BDivModFrom(_, _, _, _, _)
BDivModStep(a, d, i, q, r, qd) ==
    BDivModFrom(a, d, i, <<qd>> \o q, BSub(r, BMulSmall(d, qd)))

\* long division: the digits i, i - 1, ..., 1 of a are still to be brought
\* down, q holds the digits of the quotient found so far and rem < d is
\* the remainder so far
BDivModFrom(a, d, i, q, rem) ==
    IF i = 0 THEN <<q, rem>>
    ELSE IF rem = <<>> /\ a[i] = 0 THEN BDivModFrom(a, d, i - 1, <<0>> \o q, rem)
    ELSE BDivModStep(a, d, i - 1, q, <<a[i]>> \o rem, QuotDigit(<<a[i]>> \o rem, d))

\* <<q, a - q * k>>
BDivModSmall(a, k, q) == <<q, BSub(a, BMulSmall(q, k))>>

\* <<a \div d, a % d>> for d > 0: by the digit d if it is one, else by long
\* division, which starts with the leading Len(d) - 1 digits of a as the
\* remainder
BDivMod(a, d) ==
    IF Len(a) < Len(d) THEN <<<<>>, a>>
    ELSE IF Len(d) = 1 THEN BDivModSmall(a, d[1], BDivSmall(a, d[1]))
    ELSE BDivModPair(BDivModFrom(a, d, Len(a) - Len(d) + 1, <<>>,
                                 SubSeq(a, Len(a) - Len(d) + 2, Len(a))))

FloatZero == <<1, <<>>, 0>>

FIsZero(x) == x = FloatZero

\* the number of zero bits below the lowest one bit of M > 0
TrailingZeros(M) ==
    LET i == CHOOSE i \in 1..Len(M) : M[i] # 0 /\ \A j \in 1..(i - 1) : M[j] = 0
        k == CHOOSE k \in 0..14 : M[i] % Pow2(k) = 0 /\ M[i] % Pow2(k + 1) # 0
    IN  15 * (i - 1) + k

\* s * M * 2^e with the k zero bits at the low end of M moved to the exponent
FShiftRight(s, M, e, k) == <<s, BShr(M, k), e + k>>

\* the canonical form of s * M * 2^e : M odd, or the zero above
FNorm(s, M, e) == IF M = <<>> THEN FloatZero ELSE FShiftRight(s, M, e, TrailingZeros(M))

\* s * (Q + t) * 2^e rounded to 53 bits, ties to even, where 0 <= t < 1
\* is known only as zero (sticky = FALSE) or not zero (sticky = TRUE)
FRoundBits(s, Q, sticky, e) ==
    LET extra == BBitLen(Q) - 53
        hi    == BShr(Q, extra)
        \* the sign of (the bits dropped) - 1/2
        half  == BCmp(BSub(Q, BShl(hi, extra)), BShl(<<1>>, extra - 1))
    IN  IF extra <= 0 THEN FNorm(s, Q, e)
        ELSE IF (IF BIsEven(hi) /\ ~sticky THEN half > 0 ELSE half >= 0)
             THEN FNorm(s, BAdd(hi, <<1>>), e + extra)
             ELSE FNorm(s, hi, e + extra)

\* the double nearest to s * (N / D) * 2^e, for naturals N and D > 0
FRoundRat(s, N, D, e) ==
    IF N = <<>> THEN FloatZero
    ELSE LET t  == 55 - (BBitLen(N) - BBitLen(D))
             qr == IF t >= 0 THEN BDivMod(BShl(N, t), D)
                   ELSE BDivMod(N, BShl(D, -t))
         IN  FRoundBits(s, qr[1], qr[2] # <<>>, e - t)

\* float(n) for an int n
FromInt(n) == FNorm(IF n < 0 THEN -1 ELSE 1, BFromInt(Abs(n)), 0)

\* the double of the decimal h / 100 (an amount kept in hundredths)
FromHundredths(h) ==
    IF h % 100 = 0 THEN FromInt(h \div 100)
    ELSE FRoundRat(IF h < 0 THEN -1 ELSE 1, BFromInt(Abs(h)), <<100>>, 0)

FNeg(x) == IF x = FloatZero THEN x ELSE <<-x[1], x[2], x[3]>>

\* x * y
FMul(x, y) ==
    IF x = FloatZero \/ y = FloatZero THEN FloatZero
    ELSE FRoundBits(x[1] * y[1], BMul(x[2], y[2]), FALSE, x[3] + y[3])

\* x / y, y not zero
FDiv(x, y) ==
    IF x = FloatZero \/ y = FloatZero THEN FloatZero
    ELSE FRoundRat(x[1] * y[1], x[2], y[2], x[3] - y[3])

\* x + y
FAdd(x, y) ==
    LET e == IF x[3] < y[3] THEN x[3] ELSE y[3]
        a == BShl(x[2], x[3] - e)
        b == BShl(y[2], y[3] - e)
        c == BCmp(a, b)
    IN  IF x = FloatZero THEN y
        ELSE IF y = FloatZero THEN x
        ELSE IF x[1] = y[1] THEN FRoundBits(x[1], BAdd(a, b), FALSE, e)
        ELSE IF c = 0 THEN FloatZero
        ELSE IF c > 0 THEN FRoundBits(x[1], BSub(a, b), FALSE, e)
        ELSE FRoundBits(y[1], BSub(b, a), FALSE, e)

\* x - y
FSub(x, y) == FAdd(x, FNeg(y))

\* round(x, 2) for a double x, as the rational k / 100: the hundredth
\* nearest to the exact value of x, a tie going to the even one
FRound2(x) ==
    LET n  == BMulSmall(x[2], 100)
        qr == IF x[3] >= 0 THEN <<BShl(n, x[3]), <<>>>>
              ELSE <<BShr(n, -x[3]), BSub(n, BShl(BShr(n, -x[3]), -x[3]))>>
        half == IF x[3] >= 0 THEN -1
                ELSE BCmp(qr[2], BShl(<<1>>, -x[3] - 1))
        up == half > 0 \/ (half = 0 /\ ~BIsEven(qr[1]))
    IN  Rat(x[1] * (BToInt(qr[1]) + IF up THEN 1 ELSE 0), 100)

\* A double that is kept as the float expression that produces it: an int,
\* a decimal number of hundredths, or an operation on two such expressions.
\* FloatValue computes the double.
FInt(n) == <<"int", n>>
FDec(h) == <<"dec", h>>
FPlus(x, y) == <<"add", x, y>>
FMinus(x, y) == <<"sub", x, y>>
FTimes(x, y) == <<"mul", x, y>>
FOver(x, y) == <<"div", x, y>>
\* a if c else b
FIfElse(c, a, b) == <<"if", c, a, b>>

RECURSIVE FloatValue(_)
FloatValue(x) ==
    CASE x[1] = "int" -> FromInt(x[2])
      [] x[1] = "dec" -> FromHundredths(x[2])
      [] x[1] = "add" -> FAdd(FloatValue(x[2]), FloatValue(x[3]))
      [] x[1] = "sub" -> FSub(FloatValue(x[2]), FloatValue(x[3]))
      [] x[1] = "mul" -> FMul(FloatValue(x[2]), FloatValue(x[3]))
      [] x[1] = "div" -> FDiv(FloatValue(x[2]), FloatValue(x[3]))
      [] x[1] = "if"  -> IF FIsZero(FloatValue(x[2])) THEN FloatValue(x[4])
                         ELSE FloatValue(x[3])

\* The float expression behind a float field of a dataclass instance: the
\* arithmetic of the constructor call where the call computed the field
\* (kept in self.binary64), else the decimal value of the field.
FloatExprOf(self, field) ==
    IF "binary64" \in DOMAIN self /\ field \in DOMAIN self.binary64
    THEN self.binary64[field]
    ELSE FDec(self[field])

\* Python's built-in round(xd, 2), where xd is the float expression the
\* code has evaluated for a quotient whose exact value is the rational x.
\* The double lies within a few units in the last place of x: far closer to
\* x than x is to a halfway point, unless x is a halfway point itself.  Only
\* then does the rounding error of the double decide the result, and only
\* then is the double computed.
Round2(x, xd) ==
    IF IsHalfway(x) THEN FRound2(FloatValue(xd)) ELSE RoundExact2(x)


(***************************************************************************)
(* src/financial_model.py : MessAssumptions and its derived properties     *)
(***************************************************************************)

\* Bounds of the explored inputs.
MaxStudents == 2
MaxWastageSteps == 3

\* A whole number of currency units as an amount in hundredths.
Money(units) == units * 100

\* The dataclass default of days_in_month, used by every constructor call
\* that does not pass the field.
DefaultDaysInMonth == 30

\* MessAssumptions(...) as run_optimizations calls it: twelve keyword
\* arguments, days_in_month not among them.
MessAssumptions(students, fee, daily_food, wastage, lpg, water, packaging, salaries, elec, maint, rent_, insurance) ==
    [ total_students                |-> students,
      monthly_fee_per_student       |-> fee,
      days_in_month                 |-> DefaultDaysInMonth,
      daily_food_cost_per_student   |-> daily_food,
      food_wastage_pct              |-> wastage,
      lpg_fuel_monthly              |-> lpg,
      water_monthly                 |-> water,
      packaging_disposables_monthly |-> packaging,
      staff_salaries                |-> salaries,
      electricity                   |-> elec,
      maintenance                   |-> maint,
      rent                          |-> rent_,
      insurance_misc                |-> insurance ]

\* MessAssumptions() : the compiled-in defaults.
DefaultMess ==
    MessAssumptions(650, Money(4500), Money(90), 12, Money(55000),
                    Money(18000), Money(12000), Money(220000), Money(45000),
                    Money(20000), Money(60000), Money(15000))

monthly_raw_food_cost(self) ==
    self.total_students * self.daily_food_cost_per_student * self.days_in_month

monthly_wastage_cost(self) ==
    TimesPct(monthly_raw_food_cost(self), self.food_wastage_pct)

\* variable costs that leave the packaging and disposables out
total_variable_costs_NoPackaging(self) ==
    monthly_raw_food_cost(self) + monthly_wastage_cost(self) + self.lpg_fuel_monthly
        + self.water_monthly

total_variable_costs(self) ==
    monthly_raw_food_cost(self) + monthly_wastage_cost(self) + self.lpg_fuel_monthly
        + self.water_monthly + self.packaging_disposables_monthly

total_fixed_costs(self) ==
    self.staff_salaries + self.electricity + self.maintenance + self.rent
        + self.insurance_misc

total_revenue(self) == self.total_students * self.monthly_fee_per_student

total_cost(self) == total_variable_costs(self) + total_fixed_costs(self)

\* a profit that leaves the fixed costs out
profit_NoFixed(self) == total_revenue(self) - total_variable_costs(self)

profit(self) == total_revenue(self) - total_cost(self)

\* a margin as a fraction instead of a percentage
profit_margin_Fraction(self) ==
    IF total_revenue(self) # 0
    THEN Rat(profit(self), total_revenue(self))
    ELSE RatZero

profit_margin(self) ==
    IF total_revenue(self) # 0
    THEN RatTimes100(Rat(profit(self), total_revenue(self)))
    ELSE RatZero

\* The same properties as the float expressions the code evaluates,
\* operation by operation in the order of the source (a sum runs from left
\* to right).

monthly_raw_food_cost_float(self) ==
    FTimes(FTimes(FInt(self.total_students),
              FloatExprOf(self, "daily_food_cost_per_student")),
         FInt(self.days_in_month))

monthly_wastage_cost_float(self) ==
    FTimes(monthly_raw_food_cost_float(self),
         FOver(FInt(self.food_wastage_pct), FInt(100)))

total_variable_costs_float(self) ==
    FPlus(FPlus(FPlus(FPlus(monthly_raw_food_cost_float(self),
                        monthly_wastage_cost_float(self)),
                   FloatExprOf(self, "lpg_fuel_monthly")),
              FloatExprOf(self, "water_monthly")),
         FloatExprOf(self, "packaging_disposables_monthly"))

total_fixed_costs_float(self) ==
    FPlus(FPlus(FPlus(FPlus(FloatExprOf(self, "staff_salaries"),
                        FloatExprOf(self, "electricity")),
                   FloatExprOf(self, "maintenance")),
              FloatExprOf(self, "rent")),
         FloatExprOf(self, "insurance_misc"))

total_revenue_float(self) ==
    FTimes(FInt(self.total_students), FloatExprOf(self, "monthly_fee_per_student"))

total_cost_float(self) ==
    FPlus(total_variable_costs_float(self), total_fixed_costs_float(self))

profit_float(self) == FMinus(total_revenue_float(self), total_cost_float(self))

profit_margin_float(self) ==
    FIfElse(total_revenue_float(self),
            FTimes(FOver(profit_float(self), total_revenue_float(self)), FInt(100)),
            FInt(0))

(***************************************************************************)
(* src/financial_model.py : run_optimizations                              *)
(***************************************************************************)

\* a snapshot whose total cost leaves the fixed costs out
_snap_VariableOnly(name, mm) ==
    [ Scenario        |-> name,
      Revenue         |-> total_revenue(mm),
      VariableCosts   |-> total_variable_costs(mm),
      FixedCosts      |-> total_fixed_costs(mm),
      TotalCost       |-> total_variable_costs(mm),
      Profit          |-> profit(mm),
      ProfitMarginPct |-> Round2(profit_margin(mm), profit_margin_float(mm)) ]

\* The dict _snap returns: the amounts in hundredths, the margin as the
\* rational round(m.profit_margin, 2) of the double m.profit_margin.
_snap(name, mm) ==
    [ Scenario        |-> name,
      Revenue         |-> total_revenue(mm),
      VariableCosts   |-> total_variable_costs(mm),
      FixedCosts      |-> total_fixed_costs(mm),
      TotalCost       |-> total_cost(mm),
      Profit          |-> profit(mm),
      ProfitMarginPct |-> Round2(profit_margin(mm), profit_margin_float(mm)) ]

WastageReductions == <<5, 10, 15>>
EfficiencyGains == <<2, 5, 8>>

\* a pricing loop that stops at 200
FeeBumps_Short == <<100, 200>>

FeeBumps == <<100, 200, 300>>

\* base.x * factor with factor = 1 - eff / 100.
TimesFactor(x, eff) == TimesPct(x, 100 - eff)

\* factor = 1 - eff / 100 as a float expression
FactorFloat(eff) == FMinus(FInt(1), FOver(FInt(eff), FInt(100)))

\* the literal 0.95
Float095 == FDec(95)

\* An instance together with the float expressions of the fields that its
\* constructor call computed in float arithmetic.
WithFloats(self, floats) == self @@ ("binary64" :> floats)

\* a wastage variant whose percentage is clamped at 0
WastageVariant_Clamped(b, reduction) ==
    MessAssumptions(b.total_students, b.monthly_fee_per_student,
                    b.daily_food_cost_per_student,
                    IF b.food_wastage_pct < reduction THEN 0
                    ELSE b.food_wastage_pct - reduction,
                    b.lpg_fuel_monthly, b.water_monthly,
                    b.packaging_disposables_monthly, b.staff_salaries,
                    b.electricity, b.maintenance, b.rent, b.insurance_misc)

WastageVariant(b, reduction) ==
    MessAssumptions(b.total_students, b.monthly_fee_per_student,
                    b.daily_food_cost_per_student,
                    b.food_wastage_pct - reduction,
                    b.lpg_fuel_monthly, b.water_monthly,
                    b.packaging_disposables_monthly, b.staff_salaries,
                    b.electricity, b.maintenance, b.rent, b.insurance_misc)

EfficiencyVariant(b, eff) ==
    WithFloats(
    MessAssumptions(b.total_students, b.monthly_fee_per_student,
                    b.daily_food_cost_per_student, b.food_wastage_pct,
                    TimesFactor(b.lpg_fuel_monthly, eff),
                    TimesFactor(b.water_monthly, eff),
                    b.packaging_disposables_monthly, b.staff_salaries,
                    TimesFactor(b.electricity, eff),
                    TimesFactor(b.maintenance, eff),
                    b.rent, b.insurance_misc),
    [ lpg_fuel_monthly |-> FTimes(FloatExprOf(b, "lpg_fuel_monthly"), FactorFloat(eff)),
      water_monthly    |-> FTimes(FloatExprOf(b, "water_monthly"), FactorFloat(eff)),
      electricity      |-> FTimes(FloatExprOf(b, "electricity"), FactorFloat(eff)),
      maintenance      |-> FTimes(FloatExprOf(b, "maintenance"), FactorFloat(eff)) ])

PricingVariant(b, bump) ==
    WithFloats(
    MessAssumptions(b.total_students, b.monthly_fee_per_student + Money(bump),
                    b.daily_food_cost_per_student, b.food_wastage_pct,
                    b.lpg_fuel_monthly, b.water_monthly,
                    b.packaging_disposables_monthly, b.staff_salaries,
                    b.electricity, b.maintenance, b.rent, b.insurance_misc),
    [ monthly_fee_per_student |->
          FPlus(FloatExprOf(b, "monthly_fee_per_student"), FInt(bump)) ])

\* a combined variant that leaves the water cost at its base value
CombinedVariant_WaterKept(b) ==
    WithFloats(
    MessAssumptions(b.total_students, b.monthly_fee_per_student + Money(200),
                    b.daily_food_cost_per_student, b.food_wastage_pct - 10,
                    TimesPct(b.lpg_fuel_monthly, 95),
                    b.water_monthly,
                    b.packaging_disposables_monthly, b.staff_salaries,
                    TimesPct(b.electricity, 95),
                    TimesPct(b.maintenance, 95),
                    b.rent, b.insurance_misc),
    [ monthly_fee_per_student |->
          FPlus(FloatExprOf(b, "monthly_fee_per_student"), FInt(200)),
      lpg_fuel_monthly |-> FTimes(FloatExprOf(b, "lpg_fuel_monthly"), Float095),
      water_monthly    |-> FloatExprOf(b, "water_monthly"),
      electricity      |-> FTimes(FloatExprOf(b, "electricity"), Float095),
      maintenance      |-> FTimes(FloatExprOf(b, "maintenance"), Float095) ])

CombinedVariant(b) ==
    WithFloats(
    MessAssumptions(b.total_students, b.monthly_fee_per_student + Money(200),
                    b.daily_food_cost_per_student, b.food_wastage_pct - 10,
                    TimesPct(b.lpg_fuel_monthly, 95),
                    TimesPct(b.water_monthly, 95),
                    b.packaging_disposables_monthly, b.staff_salaries,
                    TimesPct(b.electricity, 95),
                    TimesPct(b.maintenance, 95),
                    b.rent, b.insurance_misc),
    [ monthly_fee_per_student |->
          FPlus(FloatExprOf(b, "monthly_fee_per_student"), FInt(200)),
      lpg_fuel_monthly |-> FTimes(FloatExprOf(b, "lpg_fuel_monthly"), Float095),
      water_monthly    |-> FTimes(FloatExprOf(b, "water_monthly"), Float095),
      electricity      |-> FTimes(FloatExprOf(b, "electricity"), Float095),
      maintenance      |-> FTimes(FloatExprOf(b, "maintenance"), Float095) ])

\* The compiled-in defaults and a grid around the cases the formulas
\* distinguish (no students, no fee, a month that is not 30 days long,
\* wastage below a reduction, costs above revenue).
MessGridInputs ==
    { [ DefaultMess EXCEPT !.total_students = s,
                           !.monthly_fee_per_student = Money(fee),
                           !.days_in_month = d,
                           !.daily_food_cost_per_student = Money(food),
                           !.food_wastage_pct = w,
                           !.lpg_fuel_monthly = Money(lpg),
                           !.electricity = Money(el) ] :
        s \in (0..MaxStudents) \cup {650},
        fee \in {0, 4500},
        d \in {28, 30, 31},
        food \in {0, 90},
        w \in {4 * k : k \in 0..MaxWastageSteps},
        lpg \in {0, 55000},
        el \in {45000} }

\* Inputs for which a recorded margin lies exactly halfway between two
\* hundredths and the double decides the rounding: a base margin of
\* 59.125 and one of 0.005, a margin of -366.395 after a fee increase of
\* 200 and one of -1389.975 in the combined scenario.
HalfwayMessInputs ==
    { MessAssumptions(1, Money(800), 0, 0, 0, 0, 0, Money(327), 0, 0, 0, 0),
      MessAssumptions(1, Money(20000), 0, 0, 0, 0, 0, Money(19999), 0, 0, 0, 0),
      [ MessAssumptions(8, Money(800), Money(47), 22, Money(5599), Money(2350),
                        Money(372), Money(8645), Money(2270), Money(944),
                        Money(1478), Money(1892))
            EXCEPT !.days_in_month = 29 ],
      [ MessAssumptions(3, Money(400), Money(9), 9, Money(2029), Money(2315),
                        Money(1588), Money(11744), Money(2230), Money(473),
                        Money(4165), Money(1826))
            EXCEPT !.days_in_month = 28 ] }

\* The inputs explored.
MessInputs == MessGridInputs \cup HalfwayMessInputs

MessInit ==
    /\ prog = "mess"
    /\ pc = "base"
    /\ iter = 1
    /\ base \in MessInputs
    /\ facilities = <<>>
    /\ m = Unassigned
    /\ variant = <<>>
    /\ scenarios = <<>>

\* scenarios.append(_snap("Base Case (Current)", base))
MessBaseCase ==
    /\ prog = "mess" /\ pc = "base"
    /\ scenarios' = Append(scenarios, _snap("Base Case (Current)", base))
    /\ pc' = "wastage"
    /\ iter' = 1
    /\ UNCHANGED <<prog, base, facilities, m, variant>>

\* one iteration of  for reduction in [5, 10, 15]
MessWastageReduction ==
    /\ prog = "mess" /\ pc = "wastage"
    /\ LET reduction == WastageReductions[iter]
           clone == WastageVariant(base, reduction)
       IN  /\ m' = clone
           /\ scenarios' = Append(scenarios,
                   _snap("Wastage Reduced by " \o ToString(reduction) \o "pp", clone))
    /\ IF iter < Len(WastageReductions)
       THEN pc' = pc /\ iter' = iter + 1
       ELSE pc' = "efficiency" /\ iter' = 1
    /\ UNCHANGED <<prog, base, facilities, variant>>

\* one iteration of  for eff in [2, 5, 8]
MessOperationalEfficiency ==
    /\ prog = "mess" /\ pc = "efficiency"
    /\ LET eff == EfficiencyGains[iter]
           clone == EfficiencyVariant(base, eff)
       IN  /\ m' = clone
           /\ scenarios' = Append(scenarios,
                   _snap("Operational Efficiency +" \o ToString(eff) \o "%", clone))
    /\ IF iter < Len(EfficiencyGains)
       THEN pc' = pc /\ iter' = iter + 1
       ELSE pc' = "pricing" /\ iter' = 1
    /\ UNCHANGED <<prog, base, facilities, variant>>

\* one iteration of  for bump in [100, 200, 300]
MessPricingChange ==
    /\ prog = "mess" /\ pc = "pricing"
    /\ LET bump == FeeBumps[iter]
           clone == PricingVariant(base, bump)
       IN  /\ m' = clone
           /\ scenarios' = Append(scenarios,
                   _snap("Fee Increase ₹" \o ToString(bump) \o "/mo", clone))
    /\ IF iter < Len(FeeBumps)
       THEN pc' = pc /\ iter' = iter + 1
       ELSE pc' = "combined" /\ iter' = 1
    /\ UNCHANGED <<prog, base, facilities, variant>>

\* a combined step that labels its scenario without the marker token
MessCombined_Renamed ==
    /\ prog = "mess" /\ pc = "combined"
    /\ m' = CombinedVariant(base)
    /\ scenarios' = Append(scenarios, _snap("Best Realistic Scenario", m'))
    /\ pc' = "done"
    /\ UNCHANGED <<prog, iter, base, facilities, variant>>

\* scenarios.append(_snap("Combined Optimized Scenario", m)); return scenarios
MessCombined ==
    /\ prog = "mess" /\ pc = "combined"
    /\ m' = CombinedVariant(base)
    /\ scenarios' = Append(scenarios, _snap("Combined Optimized Scenario", m'))
    /\ pc' = "done"
    /\ UNCHANGED <<prog, iter, base, facilities, variant>>

MessNext ==
    \/ MessBaseCase
    \/ MessWastageReduction
    \/ MessOperationalEfficiency
    \/ MessPricingChange
    \/ MessCombined

(***************************************************************************)
(* src/p-2/resource_utilization_model.py : Facility and its properties     *)
(***************************************************************************)

\* Bounds of the explored inputs.
MaxSlots == 3

RECURSIVE SumSeq(_)
SumSeq(q) == IF q = <<>> THEN 0 ELSE Head(q) + SumSeq(Tail(q))

RECURSIVE MaxSeq(_)
MaxSeq(q) ==
    IF Len(q) = 1 THEN q[1]
    ELSE LET t == MaxSeq(Tail(q)) IN IF q[1] >= t THEN q[1] ELSE t

\* Facility(name=..., max_capacity=..., hourly_usage=..., operating_cost_per_hour=...)
Facility(name_, cap, usage, cost) ==
    [ name                    |-> name_,
      max_capacity            |-> cap,
      hourly_usage            |-> usage,
      operating_cost_per_hour |-> cost ]

\* HOURS = [f"{h}:00" for h in range(6, 24)]
HOURS == [h \in 1..18 |-> ToString(h + 5) \o ":00"]

total_operating_hours(self) == Len(self.hourly_usage)

total_person_hours(self) == SumSeq(self.hourly_usage)

\* a capacity total over the 18 nominal slots instead of the actual ones
max_possible_person_hours_Nominal(self) == self.max_capacity * 18

max_possible_person_hours(self) ==
    self.max_capacity * total_operating_hours(self)

avg_utilization_pct(self) ==
    IF max_possible_person_hours(self) = 0
    THEN RatZero
    ELSE RatTimes100(Rat(total_person_hours(self),
                         max_possible_person_hours(self)))

peak_usage(self) ==
    IF self.hourly_usage # <<>> THEN MaxSeq(self.hourly_usage) ELSE 0

\* a peak hour that reports the last slot holding the maximum
peak_hour_LastPeak(self) ==
    IF self.hourly_usage = <<>>
    THEN "N/A"
    ELSE LET top == MaxSeq(self.hourly_usage)
             idx == CHOOSE k \in 1..Len(self.hourly_usage) :
                        /\ self.hourly_usage[k] = top
                        /\ \A j \in (k + 1)..Len(self.hourly_usage) :
                               self.hourly_usage[j] # top
         IN  HOURS[idx]

\* list.index(max(list)) : the first position holding the maximum.
peak_hour(self) ==
    IF self.hourly_usage = <<>>
    THEN "N/A"
    ELSE LET top == MaxSeq(self.hourly_usage)
             idx == CHOOSE k \in 1..Len(self.hourly_usage) :
                        /\ self.hourly_usage[k] = top
                        /\ \A j \in 1..(k - 1) : self.hourly_usage[j] # top
         IN  HOURS[idx]

\* an idle test that also counts a slot exactly at 20 %
idle_hours_Inclusive(self) ==
    Cardinality({k \in 1..Len(self.hourly_usage) :
                    5 * self.hourly_usage[k] <= self.max_capacity})

\* u < max_capacity * 0.20   (the float product compares with an integer u
\* exactly as the rational max_capacity / 5 does)
idle_hours(self) ==
    Cardinality({k \in 1..Len(self.hourly_usage) :
                    5 * self.hourly_usage[k] < self.max_capacity})

\* an overcrowding test at 60 % of capacity
overcrowded_hours_AboveSixty(self) ==
    Cardinality({k \in 1..Len(self.hourly_usage) :
                    20 * self.hourly_usage[k] > 12 * self.max_capacity})

\* u > max_capacity * 0.85
overcrowded_hours(self) ==
    Cardinality({k \in 1..Len(self.hourly_usage) :
                    20 * self.hourly_usage[k] > 17 * self.max_capacity})

\* an idle share that forgets to subtract the usage
idle_capacity_pct_Used(self) ==
    IF max_possible_person_hours(self) # 0
    THEN RatTimes100(Rat(total_person_hours(self),
                         max_possible_person_hours(self)))
    ELSE RatZero

idle_capacity_pct(self) ==
    IF max_possible_person_hours(self) # 0
    THEN RatTimes100(Rat(max_possible_person_hours(self)
                             - total_person_hours(self),
                         max_possible_person_hours(self)))
    ELSE RatZero

\* in hundredths of a currency unit
daily_operating_cost(self) ==
    self.operating_cost_per_hour * total_operating_hours(self)

\* the double operating_cost_per_hour * total_operating_hours
daily_operating_cost_float(self) ==
    FTimes(FloatExprOf(self, "operating_cost_per_hour"),
         FInt(total_operating_hours(self)))

\* in currency units per person-hour
cost_per_person_hour(self) ==
    IF total_person_hours(self) # 0
    THEN Rat(daily_operating_cost(self), 100 * total_person_hours(self))
    ELSE RatZero

\* x > n and x < n for a rational x and an integer n
RatGT(x, n) == x[1] > n * x[2]
RatLT(x, n) == x[1] < n * x[2]

(***************************************************************************)
(* src/p-2/resource_utilization_model.py : _redistribute_usage             *)
(***************************************************************************)

RECURSIVE Pow2Floor(_)
\* the largest power of two that is <= n  (n >= 1)
Pow2Floor(n) == IF n < 2 THEN 1 ELSE 2 * Pow2Floor(n \div 2)

\* int(max_capacity * target_pct) for target_pct = pct / 100, pct in {70, 60}.
\* The double nearest to 0.70 is below 0.70: when 0.70 * c is an integer n
\* in the upper eighth of its binade (4n > 7 * 2^k, 2^k <= n), the float
\* product rounds to the double below n and int() yields n - 1 (c = 90
\* gives 62).  The double product by 0.60 truncates to the exact floor.
IntOfCapTimes(c, pct) ==
    LET n == (pct * c) \div 100
    IN  IF pct = 70 /\ (pct * c) % 100 = 0 /\ n > 0 /\ 4 * n > 7 * Pow2Floor(n)
        THEN n - 1
        ELSE n

RECURSIVE Clamp(_, _)

\* a clamp that counts the excess but leaves the slot at its value
Clamp_KeepsPeak(usage, cap) == usage

\* for i, u in enumerate(new_usage): if u > cap: excess += u - cap; new_usage[i] = cap
\* (the list after the loop, built slot by slot as a sequence)
Clamp(usage, cap) ==
    IF usage = <<>> THEN <<>>
    ELSE <<IF Head(usage) > cap THEN cap ELSE Head(usage)>>
             \o Clamp(Tail(usage), cap)

RECURSIVE ClampedExcess(_, _)
ClampedExcess(usage, cap) ==
    IF usage = <<>> THEN 0
    ELSE (IF Head(usage) > cap THEN Head(usage) - cap ELSE 0)
             + ClampedExcess(Tail(usage), cap)

\* sorted(range(len(new_usage)), key=lambda i: new_usage[i]) : the indices
\* in ascending order of usage, equal usage in ascending index order
\* (sorted is stable).
RECURSIVE SortedIndices(_, _)
SortedIndices(usage, todo) ==
    IF todo = {} THEN <<>>
    ELSE LET k == CHOOSE a \in todo : \A b \in todo :
                      \/ usage[a] < usage[b]
                      \/ (usage[a] = usage[b] /\ a <= b)
         IN  <<k>> \o SortedIndices(usage, todo \ {k})

\* an order that visits the slots by position, without sorting
low_indices_ByPosition(new_usage) == [k \in 1..Len(new_usage) |-> k]

low_indices(new_usage) == SortedIndices(new_usage, 1..Len(new_usage))

RECURSIVE Spread(_, _, _, _)

\* a hand-out that gives the whole excess to the lowest slot, room or not
Spread_LowestTakesAll(new_usage, order, excess, cap) ==
    IF order = <<>> \/ excess <= 0 THEN new_usage
    ELSE [new_usage EXCEPT ![Head(order)] = @ + excess]

\* for idx in low_indices: if excess <= 0: break; room = cap - new_usage[idx];
\*     add = min(excess, room); new_usage[idx] += add; excess -= add
Spread(new_usage, order, excess, cap) ==
    IF order = <<>> \/ excess <= 0 THEN new_usage
    ELSE LET idx  == Head(order)
             room == cap - new_usage[idx]
             add  == IF excess <= room THEN excess ELSE room
         IN  Spread([new_usage EXCEPT ![idx] = @ + add], Tail(order),
                    excess - add, cap)

\* a redistribution that measures a slot's room up to max_capacity
_redistribute_usage_RoomToCapacity(facility, target_pct) ==
    LET cap       == IntOfCapTimes(facility.max_capacity, target_pct)
        new_usage == Clamp(facility.hourly_usage, cap)
        excess    == ClampedExcess(facility.hourly_usage, cap)
    IN  Spread(new_usage, low_indices(new_usage), excess,
               facility.max_capacity)

_redistribute_usage(facility, target_pct) ==
    LET cap       == IntOfCapTimes(facility.max_capacity, target_pct)
        new_usage == Clamp(facility.hourly_usage, cap)
        excess    == ClampedExcess(facility.hourly_usage, cap)
    IN  Spread(new_usage, low_indices(new_usage), excess, cap)

(***************************************************************************)
(* src/p-2/resource_utilization_model.py : run_optimizations               *)
(***************************************************************************)

\* x + y on rationals
RatAdd(x, y) == Rat(x[1] * y[2] + y[1] * x[2], x[2] * y[2])

RECURSIVE SumOfUtilizations(_, _)
SumOfUtilizations(fs, k) ==
    IF k = 0 THEN RatZero
    ELSE RatAdd(avg_utilization_pct(fs[k]), SumOfUtilizations(fs, k - 1))

\* the plain mean of the facilities' own utilization percentages
MeanOfUtilizations(fs) ==
    IF fs = <<>> THEN RatZero
    ELSE LET total == SumOfUtilizations(fs, Len(fs))
         IN  Rat(total[1], total[2] * Len(fs))

\* an aggregation that averages the per-facility percentages
FacSnapshot_MeanOfPct(name_, fs) ==
    LET t_ph    == SumSeq([k \in 1..Len(fs) |-> total_person_hours(fs[k])])
        t_cost  == SumSeq([k \in 1..Len(fs) |-> daily_operating_cost(fs[k])])
        t_idle  == SumSeq([k \in 1..Len(fs) |-> idle_hours(fs[k])])
        t_crowd == SumSeq([k \in 1..Len(fs) |-> overcrowded_hours(fs[k])])
        per_ph  == IF t_ph # 0 THEN Rat(t_cost, 100 * t_ph) ELSE RatZero
    IN  [ Scenario         |-> name_,
          AvgUtilizationPct |-> RoundExact2(MeanOfUtilizations(fs)),
          TotalPersonHours |-> t_ph,
          IdleHours        |-> t_idle,
          OvercrowdedHours |-> t_crowd,
          DailyOpCost      |-> t_cost,
          CostPerPersonHr  |-> RoundExact2(per_ph) ]

\* sum(f.daily_operating_cost for f in fs[1..k]) as the double it is: sum
\* starts from the int 0 and adds from left to right
RECURSIVE SumOfCostFloats(_, _)
SumOfCostFloats(fs, k) ==
    IF k = 0 THEN FInt(0)
    ELSE FPlus(SumOfCostFloats(fs, k - 1), daily_operating_cost_float(fs[k]))

\* The aggregation block the function repeats for every scenario:
\*   t_ph, t_max, t_cost, t_idle, t_crowd summed over the variant list,
\*   util = (t_ph / t_max) * 100 if t_max else 0, and the scenario dict.
\* The amounts are exact; the two rounded quotients are round(..., 2) of
\* the doubles (t_ph / t_max) * 100 and t_cost / t_ph.
FacSnapshot(name_, fs) ==
    LET t_ph    == SumSeq([k \in 1..Len(fs) |-> total_person_hours(fs[k])])
        t_max   == SumSeq([k \in 1..Len(fs) |-> max_possible_person_hours(fs[k])])
        t_cost  == SumSeq([k \in 1..Len(fs) |-> daily_operating_cost(fs[k])])
        t_idle  == SumSeq([k \in 1..Len(fs) |-> idle_hours(fs[k])])
        t_crowd == SumSeq([k \in 1..Len(fs) |-> overcrowded_hours(fs[k])])
        util    == IF t_max # 0 THEN RatTimes100(Rat(t_ph, t_max)) ELSE RatZero
        per_ph  == IF t_ph # 0 THEN Rat(t_cost, 100 * t_ph) ELSE RatZero
        util_float   == IF t_max # 0
                        THEN FTimes(FOver(FInt(t_ph), FInt(t_max)), FInt(100))
                        ELSE FInt(0)
        per_ph_float == IF t_ph # 0
                        THEN FOver(SumOfCostFloats(fs, Len(fs)), FInt(t_ph))
                        ELSE FInt(0)
    IN  [ Scenario         |-> name_,
          AvgUtilizationPct |-> Round2(util, util_float),
          TotalPersonHours |-> t_ph,
          IdleHours        |-> t_idle,
          OvercrowdedHours |-> t_crowd,
          DailyOpCost      |-> t_cost,
          CostPerPersonHr  |-> Round2(per_ph, per_ph_float) ]

\* a redistribution loop over the 70 % cap alone
CapPcts_Single == <<70>>

\* for cap_pct in [0.70, 0.60]  (as hundredths)
CapPcts == <<70, 60>>

RedistributedFacility(f, cap_pct) ==
    Facility(f.name, f.max_capacity, _redistribute_usage(f, cap_pct),
             f.operating_cost_per_hour)

\* an extension that also covers a facility at exactly 50 %
ExtendedFacility_FromHalf(f) ==
    IF ~RatLT(avg_utilization_pct(f), 50)
    THEN LET extra == (3 * peak_usage(f)) \div 10
         IN  Facility(f.name, f.max_capacity,
                      f.hourly_usage \o <<extra, extra>>,
                      f.operating_cost_per_hour)
    ELSE Facility(f.name, f.max_capacity, f.hourly_usage,
                  f.operating_cost_per_hour)

\* int(f.peak_usage * 0.3) twice after the usage when utilisation > 50
ExtendedFacility(f) ==
    IF RatGT(avg_utilization_pct(f), 50)
    THEN LET extra == (3 * peak_usage(f)) \div 10
         IN  Facility(f.name, f.max_capacity,
                      f.hourly_usage \o <<extra, extra>>,
                      f.operating_cost_per_hour)
    ELSE Facility(f.name, f.max_capacity, f.hourly_usage,
                  f.operating_cost_per_hour)

\* a trim that also removes a slot exactly at the threshold
TrimmedFacility_Strict(f) ==
    LET Keep(u)   == 20 * u > 3 * f.max_capacity
        new_usage == SelectSeq(f.hourly_usage, Keep)
    IN  Facility(f.name, f.max_capacity,
                 IF new_usage = <<>> THEN f.hourly_usage ELSE new_usage,
                 f.operating_cost_per_hour)

\* [u for u in f.hourly_usage if u >= f.max_capacity * 0.15], the original
\* list when that is empty
TrimmedFacility(f) ==
    LET Keep(u)   == 20 * u >= 3 * f.max_capacity
        new_usage == SelectSeq(f.hourly_usage, Keep)
    IN  Facility(f.name, f.max_capacity,
                 IF new_usage = <<>> THEN f.hourly_usage ELSE new_usage,
                 f.operating_cost_per_hour)

\* a right-sizing that also resizes a facility at exactly 40 %
ResizedFacility_UpToForty(f) ==
    LET new_cap == IF ~RatGT(avg_utilization_pct(f), 40)
                   THEN (12 * peak_usage(f)) \div 10
                   ELSE f.max_capacity
    IN  Facility(f.name, new_cap, f.hourly_usage, f.operating_cost_per_hour)

\* new_cap = int(f.peak_usage * 1.2) when utilisation < 40
ResizedFacility(f) ==
    LET new_cap == IF RatLT(avg_utilization_pct(f), 40)
                   THEN (12 * peak_usage(f)) \div 10
                   ELSE f.max_capacity
    IN  Facility(f.name, new_cap, f.hourly_usage, f.operating_cost_per_hour)

\* redistribution at 0.70, u if u >= threshold else int(threshold) with
\* threshold = f.max_capacity * 0.15, the right-sizing test on f itself,
\* cost * 0.95
CombinedFacility(f) ==
    LET spread    == _redistribute_usage(f, 70)
        floor_    == (3 * f.max_capacity) \div 20
        new_usage == [k \in 1..Len(spread) |->
                         IF 20 * spread[k] >= 3 * f.max_capacity
                         THEN spread[k] ELSE floor_]
        new_cap   == IF ~RatLT(avg_utilization_pct(f), 40)
                     THEN f.max_capacity
                     ELSE (12 * peak_usage(f)) \div 10
    IN  WithFloats(
            Facility(f.name, new_cap, new_usage,
                     TimesPct(f.operating_cost_per_hour, 95)),
            [ operating_cost_per_hour |->
                  FTimes(FloatExprOf(f, "operating_cost_per_hour"), Float095) ])

\* build_dataset()
Gymnasium ==
    Facility("Gymnasium", 60,
             <<8, 25, 35, 15, 10, 12, 18, 22, 30, 45, 50, 38, 28, 15, 10, 8, 20, 35>>,
             Money(450))
CentralLibrary ==
    Facility("Central Library", 200,
             <<15, 30, 60, 90, 120, 140, 150, 165, 170, 180, 175, 160, 130, 100, 80, 60, 45, 25>>,
             Money(800))
ComputerLabA ==
    Facility("Computer Lab A", 80,
             <<5, 10, 55, 70, 75, 72, 68, 65, 60, 55, 50, 45, 35, 25, 15, 10, 8, 5>>,
             Money(600))
ComputerLabB ==
    Facility("Computer Lab B", 80,
             <<0, 5, 40, 60, 65, 70, 72, 68, 55, 40, 30, 25, 20, 15, 10, 5, 3, 0>>,
             Money(600))
StudyRoomBlock ==
    Facility("Study Room Block", 120,
             <<10, 15, 25, 40, 50, 55, 60, 65, 70, 80, 90, 100, 105, 95, 85, 70, 55, 40>>,
             Money(350))
Auditorium ==
    Facility("Auditorium", 500,
             <<0, 0, 50, 100, 350, 200, 80, 50, 30, 20, 15, 10, 50, 100, 300, 150, 50, 0>>,
             Money(1200))
SportsComplex ==
    Facility("Sports Complex", 150,
             <<20, 40, 15, 10, 8, 12, 15, 20, 25, 35, 50, 65, 80, 100, 120, 130, 110, 70>>,
             Money(500))
build_dataset ==
    <<Gymnasium, CentralLibrary, ComputerLabA, ComputerLabB, StudyRoomBlock,
      Auditorium, SportsComplex>>

\* Usage values explored for a facility of capacity c: nothing, 10 %, 20 %,
\* half, 85 %, full and 120 % of the capacity (integer parts).
UsageLevels(c) ==
    {0, c \div 10, c \div 5, c \div 2, (17 * c) \div 20, c, c + c \div 5}

SeqsUpTo(S, n) == UNION {[1..k -> S] : k \in 0..n}

\* One facility with up to MaxSlots slots.
FacilityInputs ==
    UNION { { Facility("Test Hall", c, u, Money(450)) :
                u \in SeqsUpTo(UsageLevels(c), MaxSlots) } :
            c \in {0, 10, 20, 90} }

\* Facilities whose utilization (0.025 %) or cost per person-hour (0.225)
\* lies exactly halfway between two hundredths.
HalfwayFacilityInputs ==
    { Facility("Test Hall", 4000, <<1>>, Money(450)),
      Facility("Test Hall", 4000, <<2000>>, Money(450)) }

\* The collections explored: none, one facility, one facility followed by
\* a facility of the compiled-in dataset, and the compiled-in dataset.
FacilityCollections ==
    {<<>>, build_dataset}
        \cup { <<f>> : f \in FacilityInputs \cup HalfwayFacilityInputs }
        \cup { <<f, g>> : f \in FacilityInputs, g \in {Gymnasium, CentralLibrary} }

FacInit ==
    /\ prog = "facility"
    /\ pc = "base"
    /\ iter = 1
    /\ base = Unassigned
    /\ facilities \in FacilityCollections
    /\ m = Unassigned
    /\ variant = <<>>
    /\ scenarios = <<>>

\* scenarios.append({"Scenario": "Base Case (Current)", ...})
FacBaseCase ==
    /\ prog = "facility" /\ pc = "base"
    /\ scenarios' = Append(scenarios, FacSnapshot("Base Case (Current)", facilities))
    /\ pc' = "redistribute"
    /\ iter' = 1
    /\ UNCHANGED <<prog, base, facilities, m, variant>>

\* an iteration whose redistribution writes into the input's own usage list
FacRedistribute_InPlace ==
    /\ prog = "facility" /\ pc = "redistribute"
    /\ LET cap_pct == CapPcts[iter]
       IN  /\ variant' = [k \in 1..Len(facilities) |->
                             RedistributedFacility(facilities[k], cap_pct)]
           /\ scenarios' = Append(scenarios,
                  FacSnapshot("Redistribute (cap " \o ToString(cap_pct) \o "%)",
                              variant'))
    /\ facilities' = variant'
    /\ IF iter < Len(CapPcts)
       THEN pc' = pc /\ iter' = iter + 1
       ELSE pc' = "extended" /\ iter' = 1
    /\ UNCHANGED <<prog, base, m>>

\* one iteration of  for cap_pct in [0.70, 0.60]
FacRedistribute ==
    /\ prog = "facility" /\ pc = "redistribute"
    /\ LET cap_pct == CapPcts[iter]
       IN  /\ variant' = [k \in 1..Len(facilities) |->
                             RedistributedFacility(facilities[k], cap_pct)]
           /\ scenarios' = Append(scenarios,
                  FacSnapshot("Redistribute (cap " \o ToString(cap_pct) \o "%)",
                              variant'))
    /\ IF iter < Len(CapPcts)
       THEN pc' = pc /\ iter' = iter + 1
       ELSE pc' = "extended" /\ iter' = 1
    /\ UNCHANGED <<prog, base, facilities, m>>

FacExtendedHours ==
    /\ prog = "facility" /\ pc = "extended"
    /\ variant' = [k \in 1..Len(facilities) |-> ExtendedFacility(facilities[k])]
    /\ scenarios' = Append(scenarios,
           FacSnapshot("Extended Hours (High-Demand)", variant'))
    /\ pc' = "trim"
    /\ UNCHANGED <<prog, iter, base, facilities, m>>

FacCloseIdleSlots ==
    /\ prog = "facility" /\ pc = "trim"
    /\ variant' = [k \in 1..Len(facilities) |-> TrimmedFacility(facilities[k])]
    /\ scenarios' = Append(scenarios,
           FacSnapshot("Close Idle Slots (<15%)", variant'))
    /\ pc' = "resize"
    /\ UNCHANGED <<prog, iter, base, facilities, m>>

FacRightSizing ==
    /\ prog = "facility" /\ pc = "resize"
    /\ variant' = [k \in 1..Len(facilities) |-> ResizedFacility(facilities[k])]
    /\ scenarios' = Append(scenarios,
           FacSnapshot("Capacity Right-Sizing", variant'))
    /\ pc' = "combined"
    /\ UNCHANGED <<prog, iter, base, facilities, m>>

\* scenarios.append({"Scenario": "Combined Optimized", ...}); return scenarios
FacCombined ==
    /\ prog = "facility" /\ pc = "combined"
    /\ variant' = [k \in 1..Len(facilities) |-> CombinedFacility(facilities[k])]
    /\ scenarios' = Append(scenarios,
           FacSnapshot("Combined Optimized", variant'))
    /\ pc' = "done"
    /\ UNCHANGED <<prog, iter, base, facilities, m>>

FacNext ==
    \/ FacBaseCase
    \/ FacRedistribute
    \/ FacExtendedHours
    \/ FacCloseIdleSlots
    \/ FacRightSizing
    \/ FacCombined

(***************************************************************************)
(* The two programs are independent: a run is one of them.                 *)
(***************************************************************************)

Init == MessInit \/ FacInit

Next ==
    \/ MessBaseCase
    \/ MessWastageReduction
    \/ MessOperationalEfficiency
    \/ MessPricingChange
    \/ MessCombined
    \/ FacBaseCase
    \/ FacRedistribute
    \/ FacExtendedHours
    \/ FacCloseIdleSlots
    \/ FacRightSizing
    \/ FacCombined

Spec == Init /\ [][Next]_vars

MessSpec == MessInit /\ [][MessNext]_vars

FacSpec == FacInit /\ [][FacNext]_vars

(***************************************************************************)
(* Properties                                                              *)
(***************************************************************************)

\* The scenario the consumers compare with the baseline:
\*   combined = [s for s in scenarios if "Combined" in s["Scenario"]][0]
Contains(str, token) ==
    \E k \in 1..(Len(str) - Len(token) + 1) :
        SubSeq(str, k, k + Len(token) - 1) = token

\* indexing an empty list raises IndexError
IndexError == [raised |-> "IndexError"]

FindCombined(scs) ==
    LET hits == {k \in 1..Len(scs) : Contains(scs[k].Scenario, "Combined")}
    IN  IF hits = {} THEN IndexError
        ELSE scs[CHOOSE k \in hits : \A j \in hits : k <= j]

\* The assumption sets a mess run holds: the base and, once built, the clone.
MessHeld == IF m = Unassigned THEN {base} ELSE {base, m}

NonNegative(a) ==
    /\ a.total_students >= 0 /\ a.monthly_fee_per_student >= 0
    /\ a.days_in_month >= 0 /\ a.daily_food_cost_per_student >= 0
    /\ a.food_wastage_pct >= 0 /\ a.lpg_fuel_monthly >= 0
    /\ a.water_monthly >= 0 /\ a.packaging_disposables_monthly >= 0
    /\ a.staff_salaries >= 0 /\ a.electricity >= 0 /\ a.maintenance >= 0
    /\ a.rent >= 0 /\ a.insurance_misc >= 0

\* The documented formulas, written out on the fields (amounts in
\* hundredths; the raw food cost of whole-unit inputs is a multiple of 100).
FormulaRaw(a) ==
    a.total_students * a.daily_food_cost_per_student * a.days_in_month
FormulaWastage(a) == (FormulaRaw(a) \div 100) * a.food_wastage_pct
FormulaVariable(a) ==
    FormulaRaw(a) + FormulaWastage(a) + a.lpg_fuel_monthly + a.water_monthly
        + a.packaging_disposables_monthly
FormulaFixed(a) ==
    a.staff_salaries + a.electricity + a.maintenance + a.rent
        + a.insurance_misc
FormulaRevenue(a) == a.total_students * a.monthly_fee_per_student

FollowsFormulas(a) ==
    /\ FormulaRaw(a) % 100 = 0
    /\ monthly_raw_food_cost(a) = FormulaRaw(a)
    /\ monthly_wastage_cost(a) = FormulaWastage(a)
    /\ total_variable_costs(a) = FormulaVariable(a)
    /\ total_fixed_costs(a) = FormulaFixed(a)
    /\ total_revenue(a) = FormulaRevenue(a)
    /\ total_cost(a) = FormulaVariable(a) + FormulaFixed(a)
    /\ profit(a) = FormulaRevenue(a) - (FormulaVariable(a) + FormulaFixed(a))
    /\ (FormulaVariable(a) + FormulaFixed(a) > FormulaRevenue(a)
            => profit(a) < 0)

\* C1: every MessAssumptions with non-negative fields (the base, and every
\* clone the generator builds from it) has derived metrics equal to the
\* documented formulas, and the base-case snapshot records exactly them;
\* profit is negative when cost exceeds revenue.
C1_DerivedMetricsFollowFormulas ==
    prog = "mess" =>
        /\ \A a \in MessHeld : NonNegative(a) => FollowsFormulas(a)
        /\ Len(scenarios) >= 1 =>
               /\ scenarios[1].Revenue = FormulaRevenue(base)
               /\ scenarios[1].VariableCosts = FormulaVariable(base)
               /\ scenarios[1].FixedCosts = FormulaFixed(base)
               /\ scenarios[1].TotalCost
                      = FormulaVariable(base) + FormulaFixed(base)
               /\ scenarios[1].Profit
                      = FormulaRevenue(base)
                            - (FormulaVariable(base) + FormulaFixed(base))

\* A base with revenue, with wastage, and with costs above the revenue has
\* been snapshotted, and a non-negative clone of it has been derived.
C1_Witness ==
    /\ prog = "mess" /\ Len(scenarios) >= 2
    /\ m # Unassigned /\ NonNegative(m)
    /\ base.total_students > 0 /\ base.monthly_fee_per_student > 0
    /\ base.food_wastage_pct > 0 /\ base.daily_food_cost_per_student > 0
    /\ scenarios[1].Profit < 0

\* x is the rational n / d  (d > 0): with n / d reduced to nn / dd, x is
\* k * nn over k * dd for some k > 0
IsRatio(x, n, d) ==
    LET g  == GCD(n, d)
        nn == n \div g
        dd == d \div g
    IN  x[2] > 0 /\ x[2] % dd = 0 /\ x[1] = (x[2] \div dd) * nn

\* C2: profit_margin is exactly 0 when total_revenue is 0, whatever the
\* costs, and profit / total_revenue * 100 otherwise.
C2_ProfitMarginGuardsZeroRevenue ==
    prog = "mess" =>
        \A a \in MessHeld :
            IF FormulaRevenue(a) = 0
            THEN profit_margin(a) = <<0, 1>>
            ELSE /\ FormulaRevenue(a) % 100 = 0
                 /\ IsRatio(profit_margin(a), profit(a),
                            FormulaRevenue(a) \div 100)

\* A base without revenue but with costs went through the generator.
C2_Witness ==
    /\ prog = "mess" /\ pc = "done"
    /\ base.total_students > 0 /\ base.monthly_fee_per_student = 0
    /\ total_cost(base) > 0
    /\ scenarios[1].ProfitMarginPct = <<0, 1>>

\* Aggregates of a facility collection, summed slot by slot and facility by
\* facility from the fields.
RECURSIVE SlotsSum(_, _)
SlotsSum(q, k) == IF k = 0 THEN 0 ELSE q[k] + SlotsSum(q, k - 1)

RECURSIVE AggPersonHours(_, _)
AggPersonHours(fs, k) ==
    IF k = 0 THEN 0
    ELSE SlotsSum(fs[k].hourly_usage, Len(fs[k].hourly_usage))
             + AggPersonHours(fs, k - 1)

RECURSIVE AggCapacityHours(_, _)
AggCapacityHours(fs, k) ==
    IF k = 0 THEN 0
    ELSE fs[k].max_capacity * Len(fs[k].hourly_usage)
             + AggCapacityHours(fs, k - 1)

RECURSIVE AggCost(_, _)
AggCost(fs, k) ==
    IF k = 0 THEN 0
    ELSE fs[k].operating_cost_per_hour * Len(fs[k].hourly_usage)
             + AggCost(fs, k - 1)

RECURSIVE AggIdle(_, _)
AggIdle(fs, k) ==
    IF k = 0 THEN 0 ELSE idle_hours(fs[k]) + AggIdle(fs, k - 1)

RECURSIVE AggCrowded(_, _)
AggCrowded(fs, k) ==
    IF k = 0 THEN 0 ELSE overcrowded_hours(fs[k]) + AggCrowded(fs, k - 1)

AggUtilization(fs) ==
    IF AggCapacityHours(fs, Len(fs)) = 0 THEN RatZero
    ELSE RatTimes100(Rat(AggPersonHours(fs, Len(fs)),
                         AggCapacityHours(fs, Len(fs))))

AggCostPerPersonHour(fs) ==
    IF AggPersonHours(fs, Len(fs)) = 0 THEN RatZero
    ELSE Rat(AggCost(fs, Len(fs)), 100 * AggPersonHours(fs, Len(fs)))

\* Scenario 0 agrees with the base on the metrics that are recorded as they
\* are derived (amounts and counts).
ScenarioZeroExactPart ==
    /\ prog = "mess" =>
           /\ scenarios[1].Revenue = total_revenue(base)
           /\ scenarios[1].VariableCosts = total_variable_costs(base)
           /\ scenarios[1].FixedCosts = total_fixed_costs(base)
           /\ scenarios[1].TotalCost = total_cost(base)
           /\ scenarios[1].Profit = profit(base)
    /\ prog = "facility" =>
           /\ scenarios[1].TotalPersonHours
                  = AggPersonHours(facilities, Len(facilities))
           /\ scenarios[1].IdleHours = AggIdle(facilities, Len(facilities))
           /\ scenarios[1].OvercrowdedHours
                  = AggCrowded(facilities, Len(facilities))
           /\ scenarios[1].DailyOpCost = AggCost(facilities, Len(facilities))

\* r is x rounded to 2 decimals: a multiple of 1/100 nearest to x.  Where x
\* lies halfway between two hundredths, either of them is a nearest one.
IsRounded2(r, x) ==
    LET q == (x[1] * 100) \div x[2]
    IN  IF IsHalfway(x)
        THEN r \in {Rat(q, 100), Rat(q + 1, 100)}
        ELSE r = RoundExact2(x)

\* C3 as stated: every metric recorded in scenario 0 equals exactly the
\* corresponding derived metric of the unmodified base, the profit margin,
\* the aggregate utilization and the cost per person-hour included.
C3_Original_ScenarioZeroEqualsBaseExactly ==
    Len(scenarios) >= 1 =>
        /\ ScenarioZeroExactPart
        /\ prog = "mess" =>
               scenarios[1].ProfitMarginPct = profit_margin(base)
        /\ prog = "facility" =>
               /\ scenarios[1].AvgUtilizationPct = AggUtilization(facilities)
               /\ scenarios[1].CostPerPersonHr
                      = AggCostPerPersonHour(facilities)

\* C3 (amended): in both generators scenario 0 records the base's derived
\* amounts and counts exactly, and the base's profit margin % (mess),
\* aggregate utilization % and cost per person-hour (facility) rounded to
\* 2 decimals; later steps never change scenario 0.
C3_ScenarioZeroEqualsBaseRounded ==
    Len(scenarios) >= 1 =>
        /\ ScenarioZeroExactPart
        /\ scenarios[1].Scenario = "Base Case (Current)"
        /\ prog = "mess" =>
               IsRounded2(scenarios[1].ProfitMarginPct, profit_margin(base))
        /\ prog = "facility" =>
               /\ IsRounded2(scenarios[1].AvgUtilizationPct,
                             AggUtilization(facilities))
               /\ IsRounded2(scenarios[1].CostPerPersonHr,
                             AggCostPerPersonHour(facilities))

\* The generator has finished on a base whose margin is not a whole number
\* of hundredths of a percent, so that the recorded margin is a rounding.
C3_Witness ==
    /\ prog = "mess" /\ pc = "done"
    /\ total_revenue(base) # 0
    /\ scenarios[1].ProfitMarginPct # profit_margin(base)
    /\ scenarios[1].Profit = profit(base)

\* The clone m built for the scenario appended last keeps the base's value
\* in every field the scenario does not override.
KeepsBase(fields) == \A fld \in fields : m[fld] = base[fld]

NeverOverridden ==
    {"total_students", "days_in_month", "daily_food_cost_per_student",
     "packaging_disposables_monthly", "staff_salaries", "rent",
     "insurance_misc"}

EfficiencyFields ==
    {"lpg_fuel_monthly", "water_monthly", "electricity", "maintenance"}

LastScenario == scenarios[Len(scenarios)]

\* C4: each of the 10 non-base mess scenarios is evaluated on a clone that
\* keeps the base's value in every field it does not override,
\* days_in_month included; a fee-increase scenario has the base's variable,
\* fixed and total costs, a wastage-reduction scenario the base's revenue,
\* fixed costs and raw food cost.
C4_ClonesKeepUnoverriddenFields ==
    (prog = "mess" /\ Len(scenarios) >= 2) =>
        /\ KeepsBase(NeverOverridden)
        /\ Len(scenarios) \in 2..4 =>
               /\ KeepsBase(EfficiencyFields \cup {"monthly_fee_per_student"})
               /\ LastScenario.Revenue = total_revenue(base)
               /\ LastScenario.FixedCosts = total_fixed_costs(base)
               /\ monthly_raw_food_cost(m) = monthly_raw_food_cost(base)
        /\ Len(scenarios) \in 5..7 =>
               KeepsBase({"monthly_fee_per_student", "food_wastage_pct"})
        /\ Len(scenarios) \in 8..10 =>
               /\ KeepsBase(EfficiencyFields \cup {"food_wastage_pct"})
               /\ LastScenario.VariableCosts = total_variable_costs(base)
               /\ LastScenario.FixedCosts = total_fixed_costs(base)
               /\ LastScenario.TotalCost = total_cost(base)

MessScenarioNames ==
    << "Base Case (Current)",
       "Wastage Reduced by 5pp", "Wastage Reduced by 10pp",
       "Wastage Reduced by 15pp",
       "Operational Efficiency +2%", "Operational Efficiency +5%",
       "Operational Efficiency +8%",
       "Fee Increase ₹100/mo", "Fee Increase ₹200/mo", "Fee Increase ₹300/mo",
       "Combined Optimized Scenario" >>

\* C5: the mess run_optimizations returns exactly 11 scenarios, in the
\* order base, wastage -5/-10/-15, efficiency 2/5/8, fee +100/+200/+300,
\* combined; the list grows only at its end, in that order.
C5_ElevenScenariosInFixedOrder ==
    prog = "mess" =>
        /\ Len(scenarios) <= 11
        /\ \A k \in 1..Len(scenarios) :
               scenarios[k].Scenario = MessScenarioNames[k]
        /\ pc = "done" <=> Len(scenarios) = 11

C5_Witness ==
    /\ prog = "mess" /\ pc = "done" /\ Len(scenarios) = 11
    /\ base # DefaultMess
    /\ scenarios[11].Scenario = "Combined Optimized Scenario"

\* The base with the combined overrides and every other field as it is.
CombinedOfBase ==
    [ base EXCEPT !.monthly_fee_per_student = @ + Money(200),
                  !.food_wastage_pct = @ - 10,
                  !.lpg_fuel_monthly = (@ * 95) \div 100,
                  !.water_monthly = (@ * 95) \div 100,
                  !.electricity = (@ * 95) \div 100,
                  !.maintenance = (@ * 95) \div 100 ]

\* C6: the combined scenario's metrics are those of the base with the fee
\* raised by 200, wastage_pct lowered by 10 points and lpg, water,
\* electricity, maintenance multiplied by 0.95, every other field as in
\* the base.
C6_CombinedIsBaseWithThreeOverrides ==
    (prog = "mess" /\ pc = "done") =>
        /\ scenarios[11].Revenue = total_revenue(CombinedOfBase)
        /\ scenarios[11].VariableCosts = total_variable_costs(CombinedOfBase)
        /\ scenarios[11].FixedCosts = total_fixed_costs(CombinedOfBase)
        /\ scenarios[11].TotalCost = total_cost(CombinedOfBase)
        /\ scenarios[11].Profit = profit(CombinedOfBase)
        /\ IsRounded2(scenarios[11].ProfitMarginPct,
                      profit_margin(CombinedOfBase))

\* C7: for e in {2, 5, 8} the efficiency scenario scales exactly lpg, water,
\* electricity and maintenance by 1 - e/100 and leaves rent, staff_salaries,
\* insurance_misc and packaging alone: fixed costs are the base's minus
\* (electricity + maintenance) * e/100, variable costs the base's minus
\* (lpg + water) * e/100.
C7_EfficiencyScalesFourLineItems ==
    (prog = "mess" /\ Len(scenarios) \in 5..7) =>
        LET e == EfficiencyGains[Len(scenarios) - 4]
        IN  /\ \A fld \in EfficiencyFields :
                   100 * m[fld] = (100 - e) * base[fld]
            /\ KeepsBase({"rent", "staff_salaries", "insurance_misc",
                          "packaging_disposables_monthly"})
            /\ (e * (base.electricity + base.maintenance)) % 100 = 0
            /\ LastScenario.FixedCosts
                   = total_fixed_costs(base)
                         - (e * (base.electricity + base.maintenance)) \div 100
            /\ (e * (base.lpg_fuel_monthly + base.water_monthly)) % 100 = 0
            /\ LastScenario.VariableCosts
                   = total_variable_costs(base)
                         - (e * (base.lpg_fuel_monthly + base.water_monthly))
                               \div 100

\* C8: in each generator's list exactly one scenario name contains
\* "Combined"; it is the last one, appended by the combined step (no name
\* contains the token before that step), so the consumers' lookup finds
\* it and nothing else; the baseline is index 0.
C8_CombinedFoundByName ==
    /\ \A k \in 1..Len(scenarios) :
           Contains(scenarios[k].Scenario, "Combined")
               <=> (pc = "done" /\ k = Len(scenarios))
    /\ pc = "done" =>
           /\ Len(scenarios) = IF prog = "mess" THEN 11 ELSE 7
           /\ FindCombined(scenarios) # IndexError
           /\ FindCombined(scenarios) = scenarios[Len(scenarios)]
           /\ scenarios[1].Scenario = "Base Case (Current)"
           /\ prog = "mess" =>
                  scenarios[Len(scenarios)]
                      = _snap("Combined Optimized Scenario", m)
           /\ prog = "facility" =>
                  scenarios[Len(scenarios)]
                      = FacSnapshot("Combined Optimized", variant)

C8_Witness ==
    /\ prog = "facility" /\ pc = "done" /\ Len(facilities) = 2
    /\ FindCombined(scenarios).Scenario = "Combined Optimized"
    /\ FindCombined(scenarios) # scenarios[1]

\* The facilities a facility run holds: the inputs and the last variants.
FacHeld ==
    {facilities[k] : k \in 1..Len(facilities)}
        \cup {variant[k] : k \in 1..Len(variant)}

\* C9: for every Facility, total_person_hours is the sum of hourly_usage,
\* max_possible_person_hours is max_capacity times the number of slots,
\* daily_operating_cost is operating_cost_per_hour times the number of
\* slots, and avg_utilization_pct is their ratio times 100, or 0 (without
\* failing) when max_possible_person_hours is 0.
C9_FacilityTotalsAndUtilization ==
    prog = "facility" =>
        \A f \in FacHeld :
            LET slots == Len(f.hourly_usage)
                used  == SlotsSum(f.hourly_usage, slots)
            IN  /\ total_person_hours(f) = used
                /\ max_possible_person_hours(f) = f.max_capacity * slots
                /\ daily_operating_cost(f) = f.operating_cost_per_hour * slots
                /\ IF f.max_capacity = 0 \/ slots = 0
                   THEN avg_utilization_pct(f) = <<0, 1>>
                   ELSE IsRatio(avg_utilization_pct(f), 100 * used,
                                f.max_capacity * slots)

\* The base case of a collection holding a facility of capacity 0 with
\* slots and a facility in real use has been snapshotted.
C9_Witness ==
    /\ prog = "facility" /\ Len(scenarios) >= 1 /\ Len(facilities) = 2
    /\ facilities[1].max_capacity = 0 /\ Len(facilities[1].hourly_usage) > 0
    /\ avg_utilization_pct(facilities[1]) = <<0, 1>>
    /\ avg_utilization_pct(facilities[2]) # <<0, 1>>
    /\ scenarios[1].TotalPersonHours = total_person_hours(facilities[2])

\* C10 as stated: a Facility whose total_person_hours is 0 has both
\* cost_per_person_hour and idle_capacity_pct equal to 0.
C10_Original_UnusedFacilityHasZeroIdleCapacity ==
    prog = "facility" =>
        \A f \in FacHeld :
            SlotsSum(f.hourly_usage, Len(f.hourly_usage)) = 0 =>
                /\ cost_per_person_hour(f) = <<0, 1>>
                /\ idle_capacity_pct(f) = <<0, 1>>

\* C10 (amended): a Facility whose total_person_hours is 0 has
\* cost_per_person_hour 0; its idle_capacity_pct is 0 when
\* max_possible_person_hours is 0 (capacity 0 or no slot) and 100
\* otherwise.
C10_UnusedFacilityCostZeroIdleFull ==
    prog = "facility" =>
        \A f \in FacHeld :
            SlotsSum(f.hourly_usage, Len(f.hourly_usage)) = 0 =>
                /\ cost_per_person_hour(f) = <<0, 1>>
                /\ idle_capacity_pct(f)
                       = IF f.max_capacity * Len(f.hourly_usage) = 0
                         THEN <<0, 1>> ELSE <<100, 1>>

\* A facility with capacity, slots and a running cost, and no usage at all,
\* went through the base case.
C10_Witness ==
    /\ prog = "facility" /\ Len(scenarios) >= 1 /\ Len(facilities) >= 1
    /\ facilities[1].max_capacity > 0
    /\ Len(facilities[1].hourly_usage) >= 2
    /\ facilities[1].operating_cost_per_hour > 0
    /\ total_person_hours(facilities[1]) = 0
    /\ idle_capacity_pct(facilities[1]) = <<100, 1>>

\* The slots strictly below 20 % and strictly above 85 % of the capacity.
IdleSlots(f) ==
    {k \in 1..Len(f.hourly_usage) : 100 * f.hourly_usage[k] < 20 * f.max_capacity}

CrowdedSlots(f) ==
    {k \in 1..Len(f.hourly_usage) : 100 * f.hourly_usage[k] > 85 * f.max_capacity}

\* C11: for every Facility with max_capacity > 0 and non-negative usage,
\* idle_hours counts exactly the slots strictly below 20 % of capacity,
\* overcrowded_hours exactly the slots strictly above 85 %, no slot is
\* counted in both, and idle_hours + overcrowded_hours <= number of slots.
C11_IdleAndOvercrowdedCounts ==
    prog = "facility" =>
        \A f \in FacHeld :
            (/\ f.max_capacity > 0
             /\ \A k \in 1..Len(f.hourly_usage) : f.hourly_usage[k] >= 0) =>
                /\ idle_hours(f) = Cardinality(IdleSlots(f))
                /\ overcrowded_hours(f) = Cardinality(CrowdedSlots(f))
                /\ IdleSlots(f) \cap CrowdedSlots(f) = {}
                /\ idle_hours(f) + overcrowded_hours(f) <= Len(f.hourly_usage)

\* The base case has counted a collection whose first facility has a slot
\* exactly at 20 % and a slot exactly at 85 % of its capacity (counted in
\* neither class) and whose second facility has idle and overcrowded slots.
C11_Witness ==
    /\ prog = "facility" /\ Len(scenarios) >= 1 /\ Len(facilities) = 2
    /\ facilities[1].max_capacity = 20
    /\ \E k \in 1..Len(facilities[1].hourly_usage) :
           facilities[1].hourly_usage[k] = 4
    /\ \E k \in 1..Len(facilities[1].hourly_usage) :
           facilities[1].hourly_usage[k] = 17
    /\ idle_hours(facilities[1]) = 0 /\ overcrowded_hours(facilities[1]) = 0
    /\ idle_hours(facilities[2]) = 3 /\ overcrowded_hours(facilities[2]) = 2
    /\ scenarios[1].IdleHours = 3 /\ scenarios[1].OvercrowdedHours = 2

\* The facility list the scenario appended last was computed from: the
\* inputs for the base case, the variant list for every other scenario.
LastSource == IF Len(scenarios) = 1 THEN facilities ELSE variant

\* C12: every scenario of the facility generator reports the utilization
\* (sum of person-hours) / (sum of capacity * slots) * 100 and the cost per
\* person-hour (sum of daily costs) / (sum of person-hours) of its variant
\* list, each 0 when its denominator is 0 and rounded to 2 decimals: a
\* person-hour weighting, not the mean of the per-facility percentages.
C12_AggregateIsPersonHourWeighted ==
    (prog = "facility" /\ Len(scenarios) >= 1) =>
        LET fs   == LastSource
            used == AggPersonHours(fs, Len(fs))
            room == AggCapacityHours(fs, Len(fs))
            cost == AggCost(fs, Len(fs))
        IN  /\ IF room = 0 THEN LastScenario.AvgUtilizationPct = <<0, 1>>
               ELSE IsRounded2(LastScenario.AvgUtilizationPct,
                               RatTimes100(Rat(used, room)))
            /\ IF used = 0 THEN LastScenario.CostPerPersonHr = <<0, 1>>
               ELSE IsRounded2(LastScenario.CostPerPersonHr,
                               Rat(cost, 100 * used))
            /\ LastScenario.TotalPersonHours = used
            /\ LastScenario.DailyOpCost = cost

\* A scenario over two facilities of different sizes has been reported
\* whose utilization is not the mean of the two facilities' percentages.
C12_Witness ==
    /\ prog = "facility" /\ Len(scenarios) >= 2 /\ Len(variant) = 2
    /\ avg_utilization_pct(variant[1]) # avg_utilization_pct(variant[2])
    /\ max_possible_person_hours(variant[1])
           # max_possible_person_hours(variant[2])
    /\ ~IsRounded2(LastScenario.AvgUtilizationPct, MeanOfUtilizations(variant))
    /\ IsRounded2(LastScenario.AvgUtilizationPct, AggUtilization(variant))
    /\ LastScenario.CostPerPersonHr # <<0, 1>>

\* The integer caps tried on a usage sequence: every cap from 0 to one
\* above its peak (a higher cap leaves the sequence alone).
CapsFor(usage) == IF usage = <<>> THEN {0} ELSE 0..(MaxSeq(usage) + 1)

\* lines 168-184 of _redistribute_usage, for a cap that is already an integer
RedistributeAtCap(usage, cap) ==
    LET new_usage == Clamp(usage, cap)
    IN  Spread(new_usage, low_indices(new_usage),
               ClampedExcess(usage, cap), cap)

NonNegativeUsage(f) == \A k \in 1..Len(f.hourly_usage) : f.hourly_usage[k] >= 0

\* The scenario appended last is one of the redistribution scenarios, so
\* variant holds what _redistribute_usage returned for each input facility.
JustRedistributed ==
    /\ prog = "facility" /\ Len(scenarios) >= 2
    /\ \E k \in 1..Len(CapPcts) :
           LastScenario.Scenario
               = "Redistribute (cap " \o ToString(CapPcts[k]) \o "%)"

\* C13: for any facility with non-negative usage and any cap fraction, the
\* total of the sequence returned by _redistribute_usage is at most the
\* total of the original hourly_usage (the clamped excess is moved or
\* dropped, never duplicated), and the number of slots is the same.  Checked
\* on what each redistribution scenario built for every input facility, and,
\* where the redistribution step is about to act, at every integer cap for
\* the input facilities of at most MaxSlots slots.
C13_RedistributionNeverAddsUsage ==
    /\ JustRedistributed =>
           \A k \in 1..Len(facilities) :
               NonNegativeUsage(facilities[k]) =>
                   /\ Len(variant[k].hourly_usage)
                          = Len(facilities[k].hourly_usage)
                   /\ SumSeq(variant[k].hourly_usage)
                          <= SumSeq(facilities[k].hourly_usage)
    /\ (prog = "facility" /\ pc = "redistribute") =>
           \A k \in 1..Len(facilities) :
               LET usage == facilities[k].hourly_usage
               IN  (NonNegativeUsage(facilities[k]) /\ Len(usage) <= MaxSlots) =>
                       \A cap \in CapsFor(usage) :
                           LET out == RedistributeAtCap(usage, cap)
                           IN  /\ Len(out) = Len(usage)
                               /\ SumSeq(out) <= SumSeq(usage)

\* A redistribution scenario has been built in which one facility had its
\* excess moved to other slots (same total, different sequence) and another
\* had excess that found no room (smaller total).
C13_Witness ==
    /\ prog = "facility" /\ Len(scenarios) >= 2 /\ Len(variant) = 2
    /\ LastScenario.Scenario = "Redistribute (cap 70%)"
    /\ \E j, k \in 1..2 :
           /\ SumSeq(variant[j].hourly_usage) < SumSeq(facilities[j].hourly_usage)
           /\ variant[k].hourly_usage # facilities[k].hourly_usage
           /\ SumSeq(variant[k].hourly_usage) = SumSeq(facilities[k].hourly_usage)
           /\ variant[k].hourly_usage = _redistribute_usage(facilities[k], 70)

\* The cap fraction (in hundredths) of the redistribution scenario appended
\* last.
LastCapPct ==
    CapPcts[CHOOSE k \in 1..Len(CapPcts) :
                LastScenario.Scenario
                    = "Redistribute (cap " \o ToString(CapPcts[k]) \o "%)"]

\* The room left under cap in a usage sequence already clamped to cap.
RoomUnder(usage, cap) == SumSeq([k \in 1..Len(usage) |-> cap - usage[k]])

\* C14: for any facility with non-negative usage and positive capacity,
\* every slot of the sequence returned by _redistribute_usage is at most
\* cap = int(target_pct * max_capacity), which is itself at most
\* target_pct * max_capacity, also when the accumulated excess is larger
\* than the room available in all slots.
C14_NoSlotAboveCap ==
    /\ JustRedistributed =>
           \A k \in 1..Len(facilities) :
               LET f   == facilities[k]
                   cap == IntOfCapTimes(f.max_capacity, LastCapPct)
                   out == variant[k].hourly_usage
               IN  (NonNegativeUsage(f) /\ f.max_capacity > 0) =>
                       /\ 100 * cap <= LastCapPct * f.max_capacity
                       /\ \A s \in 1..Len(out) : out[s] <= cap
    /\ (prog = "facility" /\ pc = "redistribute") =>
           \A k \in 1..Len(facilities) :
               LET usage == facilities[k].hourly_usage
               IN  (NonNegativeUsage(facilities[k]) /\ Len(usage) <= MaxSlots) =>
                       \A cap \in CapsFor(usage) :
                           LET out == RedistributeAtCap(usage, cap)
                           IN  \A s \in 1..Len(out) : out[s] <= cap

\* The 70 % scenario has been built for a facility of capacity 90 whose
\* slots were all above the cap of 62: the excess of 88 found no room and
\* every slot is at the cap.
C14_Witness ==
    /\ JustRedistributed /\ LastCapPct = 70 /\ Len(facilities) >= 1
    /\ facilities[1].max_capacity = 90
    /\ facilities[1].hourly_usage = <<108, 90, 76>>
    /\ ClampedExcess(facilities[1].hourly_usage, 62) = 88
    /\ RoomUnder(Clamp(facilities[1].hourly_usage, 62), 62) = 0
    /\ variant[1].hourly_usage = <<62, 62, 62>>

\* The facility as it stands in the Combined scenario after redistribution
\* and flooring, before any right-sizing: the input's capacity with the
\* variant's usage.
StagedCombined(k) ==
    Facility(facilities[k].name, facilities[k].max_capacity,
             variant[k].hourly_usage, variant[k].operating_cost_per_hour)

\* C15: in the Combined scenario the steps are applied to each facility in
\* sequence: redistribution at the 70 % cap, then flooring of low slots, then
\* the right-sizing rule on the facility as it stands after those two steps
\* (max_capacity becomes int(1.2 * peak usage) exactly when utilization is
\* below 40 %, utilization and peak taken from the redistributed and floored
\* sequence).
C15_CombinedRightSizesStagedFacility ==
    (prog = "facility" /\ pc = "done") =>
        \A k \in 1..Len(facilities) :
            LET staged == StagedCombined(k)
            IN  (NonNegativeUsage(facilities[k]) /\ facilities[k].max_capacity > 0) =>
                    variant[k].max_capacity
                        = IF RatLT(avg_utilization_pct(staged), 40)
                          THEN (12 * peak_usage(staged)) \div 10
                          ELSE facilities[k].max_capacity

\* C16: in the Combined scenario, for every facility and every integer
\* max_capacity, after the flooring step no slot of the variant's usage is
\* below 15 % of the facility's original max_capacity, and the number of
\* slots is unchanged (slots are raised, never removed).
C16_CombinedFloorsEverySlotToThreshold ==
    (prog = "facility" /\ pc = "done") =>
        \A k \in 1..Len(facilities) :
            NonNegativeUsage(facilities[k]) =>
                /\ Len(variant[k].hourly_usage)
                       = Len(facilities[k].hourly_usage)
                /\ \A s \in 1..Len(variant[k].hourly_usage) :
                       100 * variant[k].hourly_usage[s]
                           >= 15 * facilities[k].max_capacity

\* Person-hours used and capacity * slots of one facility, from its fields.
UsedOf(f) == SlotsSum(f.hourly_usage, Len(f.hourly_usage))
PossibleOf(f) == f.max_capacity * Len(f.hourly_usage)

\* p is the largest value of a non-empty usage sequence.
IsPeakOf(p, usage) ==
    /\ \E k \in 1..Len(usage) : usage[k] = p
    /\ \A k \in 1..Len(usage) : usage[k] <= p

\* e is the integer part of pct % of the non-negative integer p.
IsIntPartOfPct(e, pct, p) == 100 * e <= pct * p /\ pct * p < 100 * (e + 1)

\* The scenario appended last carries this name, so variant holds the list
\* that scenario was computed from.
JustBuilt(name_) ==
    prog = "facility" /\ Len(scenarios) >= 2 /\ LastScenario.Scenario = name_

\* C17: in the Extended Hours scenario each facility whose average
\* utilization is strictly greater than 50 % has its usage followed by
\* exactly two extra slots, each the integer part of 30 % of its peak usage;
\* each facility at or below 50 % (exactly 50 % included) keeps its usage;
\* max_capacity and operating_cost_per_hour are unchanged for all.
C17_ExtendedHoursRule ==
    JustBuilt("Extended Hours (High-Demand)") =>
        /\ Len(variant) = Len(facilities)
        /\ \A k \in 1..Len(facilities) :
               LET f == facilities[k]
                   g == variant[k]
                   n == Len(f.hourly_usage)
               IN  (NonNegativeUsage(f) /\ f.max_capacity >= 0) =>
                       /\ g.name = f.name
                       /\ g.max_capacity = f.max_capacity
                       /\ g.operating_cost_per_hour = f.operating_cost_per_hour
                       /\ IF PossibleOf(f) # 0 /\ 2 * UsedOf(f) > PossibleOf(f)
                          THEN /\ Len(g.hourly_usage) = n + 2
                               /\ SubSeq(g.hourly_usage, 1, n) = f.hourly_usage
                               /\ g.hourly_usage[n + 1] = g.hourly_usage[n + 2]
                               /\ \E s \in 1..n :
                                      /\ IsPeakOf(f.hourly_usage[s], f.hourly_usage)
                                      /\ IsIntPartOfPct(g.hourly_usage[n + 1], 30,
                                                        f.hourly_usage[s])
                          ELSE g.hourly_usage = f.hourly_usage

\* The Extended Hours scenario has been built for a facility at exactly
\* 50 % (kept as it is) and for the Central Library at 52.64 % (two slots of
\* int(0.3 * 180) = 54 added to its 18).
C17_Witness ==
    /\ JustBuilt("Extended Hours (High-Demand)") /\ Len(facilities) = 2
    /\ facilities[1].max_capacity = 10
    /\ facilities[1].hourly_usage = <<0, 5, 10>>
    /\ 2 * UsedOf(facilities[1]) = PossibleOf(facilities[1])
    /\ variant[1].hourly_usage = <<0, 5, 10>>
    /\ facilities[2].name = "Central Library"
    /\ 2 * UsedOf(facilities[2]) > PossibleOf(facilities[2])
    /\ Len(variant[2].hourly_usage) = 20
    /\ variant[2].hourly_usage[19] = 54 /\ variant[2].hourly_usage[20] = 54

\* The positions of a facility's slots that are at or above 15 % of its
\* max_capacity.
KeptSlots(f) ==
    {k \in 1..Len(f.hourly_usage) : 100 * f.hourly_usage[k] >= 15 * f.max_capacity}

\* The j-th smallest member of a set of positions.
NthOf(S, j) == CHOOSE k \in S : Cardinality({i \in S : i <= k}) = j

\* C18: in the Close Idle Slots scenario each facility's variant usage is
\* its original sequence with every slot strictly below 15 % of max_capacity
\* removed and the remaining slots in their original order (a slot exactly at
\* 15 % is kept); if every slot would be removed the variant keeps the
\* original sequence, so a non-empty usage never becomes empty.
C18_CloseIdleSlotsRule ==
    JustBuilt("Close Idle Slots (<15%)") =>
        /\ Len(variant) = Len(facilities)
        /\ \A k \in 1..Len(facilities) :
               LET f    == facilities[k]
                   g    == variant[k]
                   kept == KeptSlots(f)
               IN  /\ g.max_capacity = f.max_capacity
                   /\ g.operating_cost_per_hour = f.operating_cost_per_hour
                   /\ IF kept = {}
                      THEN g.hourly_usage = f.hourly_usage
                      ELSE /\ Len(g.hourly_usage) = Cardinality(kept)
                           /\ \A j \in 1..Cardinality(kept) :
                                  g.hourly_usage[j] = f.hourly_usage[NthOf(kept, j)]
                   /\ f.hourly_usage # <<>> => g.hourly_usage # <<>>

\* The Close Idle Slots scenario has been built for a facility of capacity
\* 10 whose three slots are all below 1.5 (kept whole) and for the Central
\* Library, capacity 200: its slots 15 and 25 are removed and its slot 30,
\* exactly 15 %, is kept and now comes first.
C18_Witness ==
    /\ JustBuilt("Close Idle Slots (<15%)") /\ Len(facilities) = 2
    /\ facilities[1].max_capacity = 10
    /\ facilities[1].hourly_usage = <<1, 0, 1>>
    /\ KeptSlots(facilities[1]) = {}
    /\ variant[1].hourly_usage = <<1, 0, 1>>
    /\ facilities[2].name = "Central Library"
    /\ facilities[2].hourly_usage[1] = 15 /\ facilities[2].hourly_usage[2] = 30
    /\ Len(facilities[2].hourly_usage) = 18
    /\ Len(variant[2].hourly_usage) = 16
    /\ variant[2].hourly_usage[1] = 30
    /\ variant[2].hourly_usage[16] = 45

\* C19: in the Capacity Right-Sizing scenario each facility whose average
\* utilization is strictly below 40 % gets max_capacity replaced by the
\* integer part of 120 % of its peak usage, with usage and cost per hour
\* unchanged; each facility at or above 40 % (exactly 40 % included) is
\* unchanged.  Utilization is 0 when capacity * slots is 0, and the peak of
\* an empty usage is 0.
C19_RightSizingRule ==
    JustBuilt("Capacity Right-Sizing") =>
        /\ Len(variant) = Len(facilities)
        /\ \A k \in 1..Len(facilities) :
               LET f     == facilities[k]
                   g     == variant[k]
                   below == \/ PossibleOf(f) = 0
                            \/ 100 * UsedOf(f) < 40 * PossibleOf(f)
               IN  (NonNegativeUsage(f) /\ f.max_capacity >= 0) =>
                       /\ g.name = f.name
                       /\ g.hourly_usage = f.hourly_usage
                       /\ g.operating_cost_per_hour = f.operating_cost_per_hour
                       /\ IF ~below THEN g.max_capacity = f.max_capacity
                          ELSE IF f.hourly_usage = <<>> THEN g.max_capacity = 0
                          ELSE \E s \in 1..Len(f.hourly_usage) :
                                   /\ IsPeakOf(f.hourly_usage[s], f.hourly_usage)
                                   /\ IsIntPartOfPct(g.max_capacity, 120,
                                                     f.hourly_usage[s])

\* The Capacity Right-Sizing scenario has been built for a facility of
\* capacity 20 at 26.67 % (usage 2, 4, 10: capacity replaced by
\* int(1.2 * 10) = 12, usage kept) and for the Central Library at 52.64 %
\* (unchanged).
C19_Witness ==
    /\ JustBuilt("Capacity Right-Sizing") /\ Len(facilities) = 2
    /\ facilities[1].max_capacity = 20
    /\ facilities[1].hourly_usage = <<2, 4, 10>>
    /\ 100 * UsedOf(facilities[1]) < 40 * PossibleOf(facilities[1])
    /\ variant[1].max_capacity = 12
    /\ variant[1].hourly_usage = <<2, 4, 10>>
    /\ facilities[2].name = "Central Library"
    /\ 100 * UsedOf(facilities[2]) >= 40 * PossibleOf(facilities[2])
    /\ variant[2] = facilities[2]

\* The names of the facility scenarios, in the order of the source.
FacScenarioNames ==
    << "Base Case (Current)", "Redistribute (cap 70%)",
       "Redistribute (cap 60%)", "Extended Hours (High-Demand)",
       "Close Idle Slots (<15%)", "Capacity Right-Sizing",
       "Combined Optimized" >>

\* C20: the facility run_optimizations returns exactly 7 scenarios for any
\* collection of facilities (an empty one included), always in the same
\* order: base case, redistribution at 70 %, redistribution at 60 %, extended
\* hours, close idle slots, capacity right-sizing, combined.  While it runs,
\* the list built so far is a prefix of that order.
C20_SevenScenariosInOrder ==
    prog = "facility" =>
        /\ Len(scenarios) <= 7
        /\ \A k \in 1..Len(scenarios) : scenarios[k].Scenario = FacScenarioNames[k]
        /\ pc = "done" => Len(scenarios) = 7

\* The run over the empty collection has returned: seven scenarios, the
\* last one the combined scenario, every count and ratio 0.
C20_Witness ==
    /\ prog = "facility" /\ pc = "done" /\ facilities = <<>>
    /\ Len(scenarios) = 7
    /\ scenarios[1].Scenario = "Base Case (Current)"
    /\ scenarios[3].Scenario = "Redistribute (cap 60%)"
    /\ scenarios[7].Scenario = "Combined Optimized"
    /\ scenarios[7].TotalPersonHours = 0
    /\ scenarios[7].AvgUtilizationPct = <<0, 1>>

\* C21: both run_optimizations functions and _redistribute_usage leave their
\* inputs unchanged: no step of either run changes a field of the base
\* MessAssumptions or the name, max_capacity, operating_cost_per_hour or
\* hourly_usage (length, values, order) of an input Facility.
C21_InputsUnchanged ==
    [][ /\ base' = base
        /\ Len(facilities') = Len(facilities)
        /\ \A k \in 1..Len(facilities) :
               /\ facilities'[k].name = facilities[k].name
               /\ facilities'[k].max_capacity = facilities[k].max_capacity
               /\ facilities'[k].operating_cost_per_hour
                      = facilities[k].operating_cost_per_hour
               /\ facilities'[k].hourly_usage = facilities[k].hourly_usage ]_vars

\* A run has returned after building a variant that differs from its input:
\* a mess clone other than the base, or a facility variant list other than
\* the input list whose 70 % redistribution moved usage.
C21_Witness ==
    /\ pc = "done"
    /\ \/ prog = "mess" /\ m # base /\ base.food_wastage_pct = 12
       \/ /\ prog = "facility" /\ Len(facilities) >= 1
          /\ variant # facilities
          /\ _redistribute_usage(facilities[1], 70) # facilities[1].hourly_usage

\* The assumption set has the compiled-in default values, in whole units.
HasDefaultValues(a) ==
    /\ a.total_students = 650
    /\ a.monthly_fee_per_student = 100 * 4500
    /\ a.daily_food_cost_per_student = 100 * 90
    /\ a.days_in_month = 30
    /\ a.food_wastage_pct = 12
    /\ a.lpg_fuel_monthly = 100 * 55000
    /\ a.water_monthly = 100 * 18000
    /\ a.packaging_disposables_monthly = 100 * 12000
    /\ a.staff_salaries = 100 * 220000
    /\ a.electricity = 100 * 45000
    /\ a.maintenance = 100 * 20000
    /\ a.rent = 100 * 60000
    /\ a.insurance_misc = 100 * 15000

\* C22: with the default MessAssumptions the derived metrics are raw food
\* cost 1,755,000, wastage cost 210,600, revenue 2,925,000, variable costs
\* 2,050,600, fixed costs 360,000, total cost 2,410,600, profit 514,400 and
\* profit margin 17.59 when rounded to 2 decimals; MessAssumptions() has
\* exactly the default values, and the base-case scenario reports them.
C22_DefaultMetrics ==
    /\ HasDefaultValues(DefaultMess)
    /\ (prog = "mess" /\ HasDefaultValues(base)) =>
           /\ monthly_raw_food_cost(base) = 100 * 1755000
           /\ monthly_wastage_cost(base) = 100 * 210600
           /\ total_revenue(base) = 100 * 2925000
           /\ total_variable_costs(base) = 100 * 2050600
           /\ total_fixed_costs(base) = 100 * 360000
           /\ total_cost(base) = 100 * 2410600
           /\ profit(base) = 100 * 514400
           /\ IsRounded2(<<1759, 100>>, profit_margin(base))
           /\ ~IsHalfway(profit_margin(base))
           /\ Len(scenarios) >= 1 =>
                  /\ scenarios[1].Revenue = 100 * 2925000
                  /\ scenarios[1].TotalCost = 100 * 2410600
                  /\ scenarios[1].Profit = 100 * 514400
                  /\ scenarios[1].ProfitMarginPct = <<1759, 100>>

\* The run on the default assumptions has returned, its base case reporting
\* a profit of 514,400 at a margin of 17.59 (the unrounded margin is not a
\* multiple of 0.01).
C22_Witness ==
    /\ prog = "mess" /\ pc = "done" /\ HasDefaultValues(base)
    /\ scenarios[1].Scenario = "Base Case (Current)"
    /\ scenarios[1].Profit = 100 * 514400
    /\ scenarios[1].ProfitMarginPct = <<1759, 100>>
    /\ profit_margin(base) # <<1759, 100>>

\* The label of hour 6 + i, i counted from 0.
HourLabel(i) == ToString(6 + i) \o ":00"

\* C23: for any Facility, peak_usage is the maximum of hourly_usage and 0
\* for an empty sequence; peak_hour is "N/A" for an empty sequence and
\* otherwise, for at most 18 slots, the label of hour 6 + i where i is the
\* smallest index (from 0) whose usage equals the maximum.
C23_PeakUsageAndPeakHour ==
    prog = "facility" =>
        \A f \in FacHeld :
            LET usage == f.hourly_usage
            IN  IF usage = <<>>
                THEN peak_usage(f) = 0 /\ peak_hour(f) = "N/A"
                ELSE /\ IsPeakOf(peak_usage(f), usage)
                     /\ Len(usage) <= 18 =>
                            \E i \in 0..(Len(usage) - 1) :
                                /\ usage[i + 1] = peak_usage(f)
                                /\ \A j \in 0..(i - 1) : usage[j + 1] < usage[i + 1]
                                /\ peak_hour(f) = HourLabel(i)

\* A run holds a facility whose maximum is reached twice (slots 1 and 2
\* from 0: peak hour 7:00, not 8:00) next to the Central Library, whose peak
\* of 180 is in slot 9 (15:00).
C23_Witness ==
    /\ prog = "facility" /\ Len(facilities) = 2
    /\ facilities[1].hourly_usage = <<5, 10, 10>>
    /\ peak_usage(facilities[1]) = 10
    /\ peak_hour(facilities[1]) = "7:00"
    /\ facilities[2].name = "Central Library"
    /\ peak_usage(facilities[2]) = 180
    /\ peak_hour(facilities[2]) = "15:00"
    /\ Len(scenarios) >= 1

\* The wastage points subtracted by the mess scenario appended last: 5, 10
\* or 15 for the wastage scenarios, 10 for the combined one, 0 otherwise.
LastWastagePoints ==
    IF \E k \in 1..Len(WastageReductions) :
           LastScenario.Scenario
               = "Wastage Reduced by " \o ToString(WastageReductions[k]) \o "pp"
    THEN WastageReductions[CHOOSE k \in 1..Len(WastageReductions) :
             LastScenario.Scenario
                 = "Wastage Reduced by " \o ToString(WastageReductions[k]) \o "pp"]
    ELSE IF LastScenario.Scenario = "Combined Optimized Scenario" THEN 10
    ELSE 0

\* m is the clone of a scenario that reduces the wastage.
JustReducedWastage ==
    prog = "mess" /\ Len(scenarios) >= 2 /\ m # Unassigned /\ LastWastagePoints > 0

\* Raw food cost plus lpg, water and packaging: the variable costs without
\* the wastage cost.
VariableWithoutWastage(a) ==
    FormulaRaw(a) + a.lpg_fuel_monthly + a.water_monthly
        + a.packaging_disposables_monthly

\* C24 as stated: the wastage scenarios and the combined scenario subtract
\* the points without a clamp, and whenever the base wastage_pct is smaller
\* than the reduction the variant's wastage percentage is negative, its
\* monthly wastage cost is negative and its variable costs are lower than raw
\* food cost plus lpg, water and packaging.
C24_Original_NegativeWastageAlwaysLowersCosts ==
    JustReducedWastage =>
        /\ m.food_wastage_pct = base.food_wastage_pct - LastWastagePoints
        /\ base.food_wastage_pct < LastWastagePoints =>
               /\ m.food_wastage_pct < 0
               /\ monthly_wastage_cost(m) < 0
               /\ total_variable_costs(m) < VariableWithoutWastage(m)

\* C24 (amended): the points are subtracted without a clamp; when the base
\* wastage_pct is smaller than the reduction the variant's percentage is
\* negative, and its wastage cost is negative and its variable costs lower
\* than raw food cost plus lpg, water and packaging exactly when the
\* variant's raw food cost is positive; with no raw food cost (no students
\* or a daily food cost of 0) the wastage cost is 0 and the two sums agree.
C24_NegativeWastageLowersCostsOfPositiveFood ==
    JustReducedWastage =>
        /\ m.food_wastage_pct = base.food_wastage_pct - LastWastagePoints
        /\ (base.food_wastage_pct < LastWastagePoints /\ NonNegative(base)) =>
               /\ m.food_wastage_pct < 0
               /\ IF FormulaRaw(m) > 0
                  THEN /\ monthly_wastage_cost(m) < 0
                       /\ total_variable_costs(m) < VariableWithoutWastage(m)
                  ELSE /\ monthly_wastage_cost(m) = 0
                       /\ total_variable_costs(m) = VariableWithoutWastage(m)

\* The 5-point scenario has been built from a base with 4 % wastage and
\* positive food cost: the clone has -1 %, a negative wastage cost and
\* variable costs below its raw food cost plus lpg, water and packaging.
C24_Witness ==
    /\ JustReducedWastage /\ LastWastagePoints = 5
    /\ base.food_wastage_pct = 4 /\ base.total_students = 650
    /\ m.food_wastage_pct = -1
    /\ FormulaRaw(m) > 0
    /\ monthly_wastage_cost(m) < 0
    /\ scenarios[2].VariableCosts < VariableWithoutWastage(m)

\* Slot a comes before slot b in ascending order of the clamped usage, equal
\* usage in ascending index order.
VisitedBefore(clamped, a, b) ==
    clamped[a] < clamped[b] \/ (clamped[a] = clamped[b] /\ a < b)

\* out is a hand-out of the excess of usage over cap as C25 describes it.
IsLowestFirstHandOut(usage, cap, out) ==
    LET n       == Len(usage)
        clamped == [k \in 1..n |-> IF usage[k] > cap THEN cap ELSE usage[k]]
        excess  == SumSeq([k \in 1..n |-> usage[k] - clamped[k]])
        given   == SumSeq([k \in 1..n |-> out[k] - clamped[k]])
        room    == SumSeq([k \in 1..n |-> cap - clamped[k]])
    IN  /\ Len(out) = n
        /\ \A k \in 1..n : clamped[k] <= out[k] /\ out[k] <= cap
        /\ given = IF excess <= room THEN excess ELSE room
        /\ \A k \in 1..n :
               out[k] > clamped[k] =>
                   \A j \in 1..n : VisitedBefore(clamped, j, k) => out[j] = cap
        /\ Cardinality({k \in 1..n : clamped[k] < out[k] /\ out[k] < cap}) <= 1

\* C25: _redistribute_usage hands out the accumulated excess to slots in
\* ascending order of their usage after clamping (equal usage: lower index
\* first); each visited slot receives min(remaining excess, cap - its usage)
\* and the loop stops when the excess is 0.  So a slot receives something
\* only if every slot before it in that order has been filled up to cap,
\* and at most one slot ends strictly between its clamped value and cap.
C25_ExcessGoesToLowestSlotsFirst ==
    /\ JustRedistributed =>
           \A k \in 1..Len(facilities) :
               LET f == facilities[k]
               IN  (NonNegativeUsage(f) /\ f.max_capacity >= 0) =>
                       IsLowestFirstHandOut(f.hourly_usage,
                           IntOfCapTimes(f.max_capacity, LastCapPct),
                           variant[k].hourly_usage)
    /\ (prog = "facility" /\ pc = "redistribute") =>
           \A k \in 1..Len(facilities) :
               LET usage == facilities[k].hourly_usage
               IN  (NonNegativeUsage(facilities[k]) /\ Len(usage) <= MaxSlots) =>
                       \A cap \in CapsFor(usage) :
                           IsLowestFirstHandOut(usage, cap,
                                                RedistributeAtCap(usage, cap))

\* The 70 % scenario has been built for capacity 10 and usage 10, 5, 5: the
\* excess of 3 fills the first of the two equal slots to the cap of 7 and
\* leaves 1 for the second.
C25_Witness ==
    /\ JustRedistributed /\ LastCapPct = 70 /\ Len(facilities) >= 1
    /\ facilities[1].max_capacity = 10
    /\ facilities[1].hourly_usage = <<10, 5, 5>>
    /\ variant[1].hourly_usage = <<7, 7, 6>>

\* Every slot of every input facility is between 0 and its max_capacity.
InputsWithinCapacity ==
    \A k \in 1..Len(facilities) :
        \A s \in 1..Len(facilities[k].hourly_usage) :
            /\ 0 <= facilities[k].hourly_usage[s]
            /\ facilities[k].hourly_usage[s] <= facilities[k].max_capacity

\* C26: for any dataset in which every slot's usage is between 0 and its
\* facility's max_capacity, every facility variant built by each of the
\* seven scenarios also has every slot at most the variant's max_capacity,
\* so no scenario reports an aggregate utilization above 100 %.
C26_VariantsStayWithinCapacity ==
    (prog = "facility" /\ InputsWithinCapacity) =>
        /\ \A k \in 1..Len(variant) :
               \A s \in 1..Len(variant[k].hourly_usage) :
                   variant[k].hourly_usage[s] <= variant[k].max_capacity
        /\ \A k \in 1..Len(scenarios) :
               ~RatGT(scenarios[k].AvgUtilizationPct, 100)

\* out keeps the total of usage up to cap * number of slots: it has the
\* smaller of the two totals, and when usage is lost every slot is at cap.
KeepsTotalUpToCap(usage, cap, out) ==
    LET n     == Len(usage)
        total == SlotsSum(usage, n)
        after == SlotsSum(out, Len(out))
    IN  /\ Len(out) = n
        /\ after = IF total <= cap * n THEN total ELSE cap * n
        /\ after < total <=> total > cap * n
        /\ total > cap * n => \A s \in 1..n : out[s] = cap

\* C27: for any facility with non-negative usage and positive capacity, the
\* total of the sequence returned by _redistribute_usage equals
\* min(total of the original usage, cap * number of slots) with
\* cap = the integer part of target_pct * max_capacity (the e with
\* IsIntPartOfPct(e, pct, max_capacity)): usage is lost exactly when the
\* original total exceeds cap * number of slots, and then every slot ends
\* equal to cap.  The code takes cap = int(max_capacity * target_pct) of
\* the float product (IntOfCapTimes), which is one less at 70 % of
\* capacity 90: usage 108, 90, 76 ends as 62, 62, 62 (total 186) where the
\* integer part 63 gives min(274, 189) = 189.
C27_TotalIsMinOfTotalAndIntegerPartTimesSlots ==
    JustRedistributed =>
        \A k \in 1..Len(facilities) :
            LET f == facilities[k]
            IN  (NonNegativeUsage(f) /\ f.max_capacity > 0) =>
                    \A cap \in 0..f.max_capacity :
                        IsIntPartOfPct(cap, LastCapPct, f.max_capacity) =>
                            KeepsTotalUpToCap(f.hourly_usage, cap,
                                              variant[k].hourly_usage)

\* Every input facility has a positive capacity and non-negative usage.
PositiveCapacities ==
    \A k \in 1..Len(facilities) :
        facilities[k].max_capacity > 0 /\ NonNegativeUsage(facilities[k])

\* C28: for any collection of facilities with positive capacities and
\* non-negative usage, both Redistribute scenarios (caps 70 % and 60 %)
\* report 0 overcrowded hours: every redistributed slot is at most the cap,
\* which is below 85 % of the unchanged capacity.
C28_RedistributionLeavesNoOvercrowding ==
    (JustRedistributed /\ PositiveCapacities) =>
        /\ LastScenario.OvercrowdedHours = 0
        /\ \A k \in 1..Len(variant) :
               /\ variant[k].max_capacity = facilities[k].max_capacity
               /\ \A s \in 1..Len(variant[k].hourly_usage) :
                      /\ variant[k].hourly_usage[s]
                             <= IntOfCapTimes(facilities[k].max_capacity, LastCapPct)
                      /\ 100 * variant[k].hourly_usage[s]
                             < 85 * variant[k].max_capacity

\* Both redistribution scenarios have been built for a collection whose
\* base case reports overcrowded hours (the Central Library has two, the
\* first facility has slots above its capacity): both report 0.
C28_Witness ==
    /\ prog = "facility" /\ Len(scenarios) = 3 /\ Len(facilities) = 2
    /\ PositiveCapacities
    /\ facilities[1].hourly_usage = <<12, 10, 8>>
    /\ facilities[2].name = "Central Library"
    /\ scenarios[1].OvercrowdedHours = 4
    /\ scenarios[2].Scenario = "Redistribute (cap 70%)"
    /\ scenarios[2].OvercrowdedHours = 0
    /\ scenarios[3].Scenario = "Redistribute (cap 60%)"
    /\ scenarios[3].OvercrowdedHours = 0

\* The profit gain over the base case of the mess scenario with this name
\* (the run has returned, so the scenario is in the list).
ProfitGain(name_) ==
    LET k == CHOOSE j \in 1..Len(scenarios) : scenarios[j].Scenario = name_
    IN  scenarios[k].Profit - scenarios[1].Profit

\* C29: for any base MessAssumptions with days_in_month = 30, the profit
\* gain of the Combined Optimized Scenario over the base case equals the sum
\* of the gains of the three scenarios it combines: Wastage Reduced by 10pp,
\* Operational Efficiency +5% and Fee Increase 200.
C29_CombinedGainIsSumOfGains ==
    (prog = "mess" /\ pc = "done" /\ base.days_in_month = 30) =>
        ProfitGain("Combined Optimized Scenario")
            = ProfitGain("Wastage Reduced by 10pp")
                  + ProfitGain("Operational Efficiency +5%")
                  + ProfitGain("Fee Increase ₹200/mo")

\* The run on the default assumptions has returned: the three gains are
\* 175,500, 6,900 and 130,000 and the combined gain is 312,400.
C29_Witness ==
    /\ prog = "mess" /\ pc = "done" /\ HasDefaultValues(base)
    /\ ProfitGain("Wastage Reduced by 10pp") = 100 * 175500
    /\ ProfitGain("Operational Efficiency +5%") = 100 * 6900
    /\ ProfitGain("Fee Increase ₹200/mo") = 100 * 130000
    /\ ProfitGain("Combined Optimized Scenario") = 100 * 312400

\* C30: _redistribute_usage is idempotent for a fixed cap fraction: applied
\* to a facility whose usage is the result of a previous redistribution of
\* the same facility at the same target_pct, it returns that usage
\* unchanged, slot for slot.
C30_RedistributionIsIdempotent ==
    /\ JustRedistributed =>
           \A k \in 1..Len(variant) :
               /\ variant[k].max_capacity = facilities[k].max_capacity
               /\ _redistribute_usage(variant[k], LastCapPct)
                      = variant[k].hourly_usage
    /\ (prog = "facility" /\ pc = "redistribute") =>
           \A k \in 1..Len(facilities) :
               LET usage == facilities[k].hourly_usage
               IN  Len(usage) <= MaxSlots =>
                       \A cap \in CapsFor(usage) :
                           LET once == RedistributeAtCap(usage, cap)
                           IN  RedistributeAtCap(once, cap) = once

\* The 70 % scenario has been built for capacity 20 and usage 20, 17, 2:
\* the result 14, 14, 11 differs from the input and a second redistribution
\* at 70 % returns it as it is.
C30_Witness ==
    /\ JustRedistributed /\ LastCapPct = 70 /\ Len(facilities) >= 1
    /\ facilities[1].max_capacity = 20
    /\ facilities[1].hourly_usage = <<20, 17, 2>>
    /\ variant[1].hourly_usage = <<14, 14, 11>>
    /\ _redistribute_usage(variant[1], 70) = <<14, 14, 11>>

====
